---------------------------- MODULE Spec2Model ----------------------------
(***************************************************************************)
(* A model of the rendering core in tools/src/format.rs:                   *)
(*   format_code       tokens + analysis records -> FormattedLine list,    *)
(*                     occurrence table, symbol-info table                 *)
(*   format_file_data  the per-line loop that interleaves blame and the    *)
(*                     nesting containers with the rendered lines          *)
(*   format_diff       the diff reconstruction loop                        *)
(* Text is a sequence of one-character strings.  Offsets, columns and the  *)
(* analysis cursor are 0-based as in the source; TLA+ sequences are        *)
(* 1-based, so an offset k addresses element k + 1.                        *)
(***************************************************************************)
EXTENDS Integers, Sequences, FiniteSets, TLC

VARIABLES
    pc,                 \* position in the render
    input,              \* format_code: the text
    analysis,           \* format_code: the analysis records, ascending by (lineno, col_start)
    jumps,              \* format_code: the jump table, a set of [sym, path, lineno, pretty]
    tokens,             \* the token vector produced by the tokenizer
    tok_i,              \* index of the next token of the `for token in tokens` loop
    output,             \* the buffer of the line being built
    output_lines,       \* Vec<FormattedLine>
    last,               \* offset up to which the input has been copied
    nesting_stack,      \* Vec<&AnalysisSource>
    starts_nest,        \* Option<Ustr>: the symbol that starts a nest on this line
    line_start,         \* offset of the first character of the current line
    cur_line,           \* 1-based number of the current line
    cur_datum,          \* the analysis cursor (0-based)
    generated_json,     \* the ANALYSIS_DATA occurrence table
    rerun_json,         \* the occurrence table of a second render of the same input
    generated_sym_info, \* the SYM_INFO table: a function symbol -> info
    line_i,             \* format_file_data: index i of the line loop (0-based)
    nest_depth,         \* format_file_data: depth of open nesting containers
    written,            \* format_file_data: what was written, one entry per row
    begun,              \* the writer has received the first bytes of the page
    coverage,           \* Option<Vec<i32>>: the coverage count of each line, or None
    blame_lines,        \* Option<Vec<LineData>>: the blame of each line, or None
    ignored,            \* the revisions git.should_ignore_for_blame reports
    prev_blames,        \* the results git_ops::find_prev_blame can return
    walk,               \* the locals of the blame walk of the current line
    blame_hash_to_human_id, \* revs string -> display id
    next_human_id,
    last_revs,          \* Option<String>: the revs of the previous line
    last_color,
    mode,               \* the caller of format_code: "file" or "diff"
    num_parents,        \* format_diff: commit.parents().count()
    blames,             \* format_diff: per parent, Option<Vec<LineData>>
    diff_lines,         \* format_diff: `lines`, once the hunk header is split off
    diff_i,             \* format_diff: index of the next line of `for line in lines`
    new_lineno,
    old_lineno,         \* format_diff: per parent, the 1-based cursor in its blame
    new_lines,          \* format_diff: the reconstructed text
    diff_output,        \* format_diff: Vec<(lno, cur_blame, origin, content)>
    row_i,              \* format_diff: index of the next row of `for ... in &output`
    last_rev,           \* format_diff: the revision of the previous attributed row
    diff_last_color,
    diff_written,       \* format_diff: what was written, one entry per row
    hist                \* history of the render, for stating properties

\* The inputs of format_code, its locals, and the locals of the line loop of
\* format_file_data.
inVars   == <<input, analysis, jumps, tokens, mode>>
codeVars == <<tok_i, output, output_lines, last, nesting_stack, starts_nest,
              line_start, cur_line, cur_datum, generated_json, rerun_json,
              generated_sym_info, hist>>
fileVars == <<line_i, nest_depth, written, begun>>
envVars  == <<blame_lines, ignored, prev_blames, coverage>>
blameVars == <<walk, blame_hash_to_human_id, next_human_id, last_revs, last_color>>

diffIn   == <<num_parents, blames, diff_lines>>
diffVars == <<diff_i, new_lineno, old_lineno, new_lines, diff_output, row_i,
              last_rev, diff_last_color, diff_written>>

vars == <<pc, inVars, codeVars, fileVars, envVars, blameVars, diffIn, diffVars>>

-----------------------------------------------------------------------------
(* Bounds of the model.                                                    *)

MaxTextLen == 4
MaxRecords == 3

-----------------------------------------------------------------------------
(* Values.                                                                 *)

\* Option::None for an Option<Ustr> / Option<String>.
None == "none"

\* The path of the file being rendered (format_code's `path`).
ThisPath == "f"

\* An AnalysisSource: symbols (first is canonical), pretty, syntax tags,
\* no_crossref, type_pretty, type_sym and the nesting range.
Source(sym, syntax, ncr, ty, s, e) ==
    [sym |-> sym, pretty |-> sym[1], syntax |-> syntax, no_crossref |-> ncr,
     type_pretty |-> ty, type_sym |-> None,
     nesting_range |-> [start_lineno |-> s, end_lineno |-> e]]

\* WithLocation<Vec<AnalysisSource>>.
Record(l, c, d) == [lineno |-> l, col_start |-> c, data |-> d]

-----------------------------------------------------------------------------
(* The tokenizer: every character other than a blank is one token.         *)

KindOf(c) ==
    CASE c = "\n" -> "Newline"
      [] c = "i"  -> "Identifier"          \* Identifier(None)
      [] c = "k"  -> "IdentifierStyled"    \* Identifier(Some(style))
      [] c = "s"  -> "StringLiteral"
      [] c = "c"  -> "Comment"
      [] c = "t"  -> "PlainText"
      [] OTHER    -> "Punctuation"

RECURSIVE TokenizeFrom(_, _)
TokenizeFrom(text, k) ==
    IF k > Len(text) THEN <<>>
    ELSE IF text[k] = " " THEN TokenizeFrom(text, k + 1)
    ELSE <<[kind |-> KindOf(text[k]), start |-> k - 1, end |-> k]>>
             \o TokenizeFrom(text, k + 1)

Tokenize(text) == TokenizeFrom(text, 1)

\* The inline style of an Identifier(Some(style)) token.
InlineStyle == <<"syn_reserved">>

-----------------------------------------------------------------------------
(* Strings.                                                                *)

\* &input[from..to]
Slice(text, from, to) == SubSeq(text, from + 1, to)

RECURSIVE entity_replace(_)
entity_replace(s) ==
    IF s = <<>> THEN <<>>
    ELSE (CASE Head(s) = "&" -> <<"&", "a", "m", "p", ";">>
            [] Head(s) = "<" -> <<"&", "l", "t", ";">>
            [] OTHER -> <<Head(s)>>) \o entity_replace(Tail(s))

RECURSIVE fixup_chars(_)
fixup_chars(s) ==
    IF s = <<>> THEN <<>>
    ELSE <<IF Head(s) = "\r" THEN "U+21A9" ELSE Head(s)>> \o fixup_chars(Tail(s))

\* links::linkify_comment: text without a URL is returned as it is.
linkify_comment(s) == s

\* A piece of the output buffer: text pushed as it is, or one <span>.
\* A span carries its style classes and, when it has data, the data-symbols
\* value and the data-i index (-1: no data-i attribute).
TextPiece(s) ==
    [tag |-> "text", txt |-> s, style |-> <<>>, has_data |-> FALSE,
     syms |-> <<>>, idx |-> -1]
SpanPiece(s, style, data) ==
    [tag |-> "span", txt |-> s, style |-> style, has_data |-> data.has,
     syms |-> data.syms, idx |-> data.idx]

\* output.push_str(s): pushing the empty string leaves the buffer as it is.
PushStr(out, s) == IF s = <<>> THEN out ELSE Append(out, TextPiece(s))

fixup(out) == [k \in 1..Len(out) |-> [out[k] EXCEPT !.txt = fixup_chars(@)]]

\* output.len() > 0
OutputNonEmpty(out) == Len(out) > 0

\* Items joined with ","
RECURSIVE Join(_)
Join(ss) ==
    IF ss = <<>> THEN <<>>
    ELSE IF Len(ss) = 1 THEN <<ss[1]>>
    ELSE <<ss[1], ",">> \o Join(Tail(ss))

RECURSIVE Flatten(_)
Flatten(seqs) == IF seqs = <<>> THEN <<>> ELSE Head(seqs) \o Flatten(Tail(seqs))

-----------------------------------------------------------------------------
(* format_code: the analysis cursor.                                       *)

\* while cur_datum < analysis.len() && cur_line > analysis[cur_datum].loc.lineno
RECURSIVE AdvancePastLines(_, _, _)
AdvancePastLines(an, cd, line) ==
    IF cd < Len(an) /\ line > an[cd + 1].lineno
    THEN AdvancePastLines(an, cd + 1, line)
    ELSE cd

\* AdvancePastCols that also passes the record at the column of the token.
RECURSIVE AdvanceThroughCols(_, _, _, _)
AdvanceThroughCols(an, cd, line, column) ==
    IF cd < Len(an) /\ line = an[cd + 1].lineno /\ column >= an[cd + 1].col_start
    THEN AdvanceThroughCols(an, cd + 1, line, column)
    ELSE cd

\* while cur_datum < analysis.len() && cur_line == ...lineno && column > ...col_start
RECURSIVE AdvancePastCols(_, _, _, _)
AdvancePastCols(an, cd, line, column) ==
    IF cd < Len(an) /\ line = an[cd + 1].lineno /\ column > an[cd + 1].col_start
    THEN AdvancePastCols(an, cd + 1, line, column)
    ELSE cd

AdvanceCursor(an, cd, line, column) ==
    AdvancePastCols(an, AdvancePastLines(an, cd, line), line, column)

\* The condition of `let datum = if ...`, at the advanced cursor.
DatumMatches(an, cd, line, column) ==
    /\ cd < Len(an)
    /\ line = an[cd + 1].lineno
    /\ column = an[cd + 1].col_start

\* The arms of `match (&token.kind, datum)` that process the datum.
\* ProcessesDatum for a token of any kind.
ProcessesDatumAnyKind(kind, matched) == matched

ProcessesDatum(kind, matched) ==
    matched /\ kind \in {"Identifier", "StringLiteral"}

-----------------------------------------------------------------------------
(* format_code: the nesting tracker.                                       *)

\* Nests without the arm for an empty range.
NestsEmptyRange(a, stack, line) ==
    IF stack = <<>> THEN TRUE
    ELSE /\ a.nesting_range.start_lineno >= line
         /\ a.nesting_range.start_lineno # stack[Len(stack)].nesting_range.start_lineno
         /\ a.nesting_range.end_lineno > line + 1

\* let nests = match (a.nesting_range.start_lineno, nesting_stack.last())
Nests(a, stack, line) ==
    IF a.nesting_range.start_lineno = 0 THEN FALSE
    ELSE IF stack = <<>> THEN TRUE
    ELSE /\ a.nesting_range.start_lineno >= line
         /\ a.nesting_range.start_lineno # stack[Len(stack)].nesting_range.start_lineno
         /\ a.nesting_range.end_lineno > line + 1

\* nesting_stack.iter().rposition(|a| a.nesting_range.end_lineno - 1 > cur_line)
\* mapped to truncate_to: the position of the last entry to keep, or 0.
TruncateTo(stack, line) ==
    LET keep == {k \in 1..Len(stack) : stack[k].nesting_range.end_lineno - 1 > line}
    IN IF keep = {} THEN 0 ELSE CHOOSE k \in keep : \A j \in keep : j <= k

-----------------------------------------------------------------------------
(* format_code: the symbol-info table.                                     *)

\* AddsSymInfo without the test that the symbol has no entry yet.
AddsSymInfoAgain(a, info) ==
    /\ a.no_crossref
    /\ a.type_pretty # None
    /\ Len(a.sym) >= 1

\* The condition under which an entry is added for a.sym[0].
AddsSymInfo(a, info) ==
    /\ a.no_crossref
    /\ a.type_pretty # None
    /\ Len(a.sym) >= 1
    /\ a.sym[1] \notin DOMAIN info

SymInfoObj(a) ==
    [syntax |-> a.syntax, type |-> a.type_pretty, typesym |-> a.type_sym]

\* generated_sym_info.insert(a.sym[0].clone(), json!(obj))
InsertSymInfo(info, a) ==
    [s \in (DOMAIN info) \cup {a.sym[1]} |->
        IF s = a.sym[1] THEN SymInfoObj(a) ELSE info[s]]

\* The start line of the range on top of the stack, 0 for an empty stack.
TopStart(stack) ==
    IF stack = <<>> THEN 0 ELSE stack[Len(stack)].nesting_range.start_lineno

\* The body of `for a in d.iter()`, applied to entries k.. of d.  st holds the
\* nesting stack, the starts_nest marker, the symbol-info table and the log of
\* pushes.
RECURSIVE ProcessSources(_, _, _, _)
ProcessSources(d, k, line, st) ==
    IF k > Len(d) THEN st
    ELSE LET a == d[k]
             nests == Nests(a, st.stack, line)
             st1 == IF nests
                    THEN [st EXCEPT !.starts = a.sym[1],
                                    !.stack = Append(@, a),
                                    !.pushed = Append(@, [src |-> a, line |-> line,
                                                          depth |-> Len(st.stack),
                                                          top_start |-> TopStart(st.stack)])]
                    ELSE st
             st2 == IF AddsSymInfo(a, st1.info)
                    THEN [st1 EXCEPT !.info = InsertSymInfo(@, a)]
                    ELSE st1
         IN ProcessSources(d, k + 1, line, st2)

-----------------------------------------------------------------------------
(* format_code: the cross-reference emitter.                               *)

\* The first symbol of each entry.
CanonicalSyms(d) == [k \in 1..Len(d) |-> d[k].sym[1]]

\* d.iter().flat_map(|item| item.sym.iter())
AllSyms(d) == Flatten([k \in 1..Len(d) |-> d[k].sym])

\* d.iter().filter(|item| !item.no_crossref)
RECURSIVE FilterCrossref(_)
FilterCrossref(d) ==
    IF d = <<>> THEN <<>>
    ELSE (IF Head(d).no_crossref THEN <<>> ELSE <<Head(d)>>) \o FilterCrossref(Tail(d))

\* MenuJumps without the test of the jump to the token's own line.
RECURSIVE MenuJumpsWithSelf(_, _, _, _, _)
MenuJumpsWithSelf(syms, k, jt, line, map) ==
    IF k > Len(syms) THEN map
    ELSE LET sym == syms[k] IN
         IF sym \notin DOMAIN jt THEN MenuJumpsWithSelf(syms, k + 1, jt, line, map)
         ELSE LET jump == jt[sym]
                  key == <<jump.path, jump.lineno>>
              IN MenuJumpsWithSelf(syms, k + 1, jt, line,
                    [x \in (DOMAIN map) \cup {key} |->
                        IF x = key THEN [sym |-> sym, pretty |-> jump.pretty, key |-> key]
                                   ELSE map[x]])

\* The loop that fills menu_jumps, over symbols k.. of syms: a map from
\* <<path, lineno>> to the jump's {sym, pretty}; a later insert replaces.
RECURSIVE MenuJumps(_, _, _, _, _)
MenuJumps(syms, k, jt, line, map) ==
    IF k > Len(syms) THEN map
    ELSE LET sym == syms[k] IN
         IF sym \notin DOMAIN jt THEN MenuJumps(syms, k + 1, jt, line, map)
         ELSE LET jump == jt[sym]
                  key == <<jump.path, jump.lineno>>
              IN IF jump.path = ThisPath /\ jump.lineno = line
                 THEN MenuJumps(syms, k + 1, jt, line, map)
                 ELSE MenuJumps(syms, k + 1, jt, line,
                        [x \in (DOMAIN map) \cup {key} |->
                            IF x = key THEN [sym |-> sym, pretty |-> jump.pretty, key |-> key]
                                       ELSE map[x]])

\* menu_jumps.into_iter().map(|(_, v)| v).collect(): the values in the order
\* the HashMap iterates, which is any order.
MenuJumpOrders(map) ==
    {s \in [1..Cardinality(DOMAIN map) -> {map[x] : x \in DOMAIN map}] :
        \A a, b \in 1..Cardinality(DOMAIN map) : a # b => s[a] # s[b]}

\* item.get_joined_syms(), item.pretty
Items(d) == [k \in 1..Len(d) |-> [sym |-> Join(d[k].sym), pretty |-> d[k].pretty]]

\* The style of a token (`let style = match token.kind`), as a list of classes.
RECURSIVE SyntaxClasses(_)
SyntaxClasses(tags) ==
    IF tags = <<>> THEN <<>>
    ELSE (CASE Head(tags) = "type" -> <<"syn_type">>
            [] Head(tags) \in {"def", "decl", "idl"} -> <<"syn_def">>
            [] OTHER -> <<>>) \o SyntaxClasses(Tail(tags))

\* Style with a definition class for every identifier without a datum.
StyleUnmatchedDef(kind, matched, d) ==
    CASE kind = "Identifier" ->
            IF matched THEN Flatten([k \in 1..Len(d) |-> SyntaxClasses(d[k].syntax)])
                       ELSE <<"syn_def">>
      [] kind = "IdentifierStyled" -> InlineStyle
      [] kind = "StringLiteral" -> <<"syn_string">>
      [] kind = "Comment" -> <<"syn_comment">>
      [] OTHER -> <<>>

Style(kind, matched, d) ==
    CASE kind = "Identifier" ->
            IF matched THEN Flatten([k \in 1..Len(d) |-> SyntaxClasses(d[k].syntax)])
                       ELSE <<>>
      [] kind = "IdentifierStyled" -> InlineStyle
      [] kind = "StringLiteral" -> <<"syn_string">>
      [] kind = "Comment" -> <<"syn_comment">>
      [] OTHER -> <<>>

NoData == [has |-> FALSE, syms |-> <<>>, idx |-> -1]

-----------------------------------------------------------------------------
(* format_code: the token loop.                                            *)

FormattedLine(line, sym, pops) ==
    [line |-> line, sym_starts_nest |-> sym, pop_nest_count |-> pops]

\* The Newline arm: flush the buffer as one FormattedLine and pop the
\* entries that end on this line or the next.
\* take that leaves the marker in place.
take_keeps(marker) == marker

\* starts_nest.take(): what is left in starts_nest.
take(marker) == None

NewlineToken ==
    /\ pc = "tokens"
    /\ tok_i <= Len(tokens)
    /\ tokens[tok_i].kind = "Newline"
    /\ LET token == tokens[tok_i]
           out == PushStr(output, Slice(input, last, token.start))
           truncate_to == TruncateTo(nesting_stack, cur_line)
           pop_count == Len(nesting_stack) - truncate_to
       IN /\ nesting_stack' = SubSeq(nesting_stack, 1, truncate_to)
          /\ output_lines' = Append(output_lines,
                                FormattedLine(fixup(out), starts_nest, pop_count))
          /\ starts_nest' = take(starts_nest)
          /\ output' = <<>>
          /\ cur_line' = cur_line + 1
          /\ line_start' = token.end
          /\ last' = token.end
          /\ hist' = [hist EXCEPT !.boundary =
                          [line |-> cur_line, before |-> nesting_stack,
                           after |-> SubSeq(nesting_stack, 1, truncate_to),
                           pops |-> pop_count]]
    /\ tok_i' = tok_i + 1
    /\ UNCHANGED <<pc, inVars, cur_datum, generated_json, rerun_json, generated_sym_info,
                   fileVars, envVars, blameVars, diffIn, diffVars>>

\* DataOf with an occurrence index for every datum.
DataOfAlwaysIndexed(d, index) ==
    [has |-> TRUE, syms |-> Join(AllSyms(d)), idx |-> index]

\* The data attributes of a processed datum: the occurrence table grows when
\* the datum has an entry that is not no_crossref.
DataOf(d, index) ==
    IF Len(Items(FilterCrossref(d))) > 0
    THEN [has |-> TRUE, syms |-> Join(AllSyms(d)), idx |-> index]
    ELSE [has |-> TRUE, syms |-> Join(AllSyms(d)), idx |-> -1]

\* The last `match token.kind`: what the token appends to the buffer and the
\* new value of `last`.
EmitToken(out, token, style, data) ==
    IF token.kind \in {"Punctuation", "PlainText"}
    THEN LET sanitized == entity_replace(Slice(input, last, token.end))
         IN [out |-> PushStr(out, IF token.kind = "PlainText"
                                   THEN linkify_comment(sanitized) ELSE sanitized),
             last |-> token.end]
    ELSE IF style # <<>> \/ data.has
    THEN LET sanitized == entity_replace(Slice(input, token.start, token.end))
         IN [out |-> Append(PushStr(out, entity_replace(Slice(input, last, token.start))),
                            SpanPiece(IF token.kind \in {"Comment", "StringLiteral"}
                                      THEN linkify_comment(sanitized) ELSE sanitized,
                                      style, data)),
             last |-> token.end]
    ELSE [out |-> out, last |-> last]

\* The body of the loop for a token that is not a Newline.
OtherToken ==
    /\ pc = "tokens"
    /\ tok_i <= Len(tokens)
    /\ tokens[tok_i].kind # "Newline"
    /\ LET token == tokens[tok_i]
           column == token.start - line_start
           cd == AdvanceCursor(analysis, cur_datum, cur_line, column)
           matched == DatumMatches(analysis, cd, cur_line, column)
           d == IF matched THEN analysis[cd + 1].data ELSE <<>>
           processes == ProcessesDatum(token.kind, matched)
           st == IF processes
                 THEN ProcessSources(d, 1, cur_line,
                        [stack |-> nesting_stack, starts |-> starts_nest,
                         info |-> generated_sym_info, pushed |-> hist.pushed])
                 ELSE [stack |-> nesting_stack, starts |-> starts_nest,
                       info |-> generated_sym_info, pushed |-> hist.pushed]
           filtered == FilterCrossref(d)
           map == MenuJumps(AllSyms(filtered), 1, jumps, cur_line, <<>>)
           data == IF processes THEN DataOf(d, Len(generated_json)) ELSE NoData
           style == Style(token.kind, matched, d)
           em == EmitToken(output, token, style, data)
       IN /\ cur_datum' = IF matched THEN cd + 1 ELSE cd
          /\ nesting_stack' = st.stack
          /\ starts_nest' = st.starts
          /\ generated_sym_info' = st.info
          /\ hist' = [hist EXCEPT !.pushed = st.pushed,
                                  !.matched = IF matched
                                              THEN Append(@, [kind |-> token.kind,
                                                              data |-> d,
                                                              line |-> cur_line,
                                                              rec |-> cd + 1,
                                                              attr |-> data,
                                                              table |-> Len(generated_json),
                                                              stack |-> nesting_stack,
                                                              pushes |-> Len(st.pushed)
                                                                           - Len(hist.pushed),
                                                              info |-> DOMAIN generated_sym_info,
                                                              info_after |-> DOMAIN st.info])
                                              ELSE @,
                                  !.cursor = [before |-> cur_datum, skipped_to |-> cd,
                                              after |-> IF matched THEN cd + 1 ELSE cd,
                                              line |-> cur_line, column |-> column,
                                              matched |-> matched]]
          /\ \E menu_jumps \in MenuJumpOrders(map) :
                generated_json' =
                    IF processes /\ data.idx >= 0
                    THEN Append(generated_json,
                                [menu_jumps |-> menu_jumps, items |-> Items(filtered),
                                 line |-> cur_line])
                    ELSE generated_json
          /\ \E menu_jumps \in MenuJumpOrders(map) :
                rerun_json' =
                    IF processes /\ data.idx >= 0
                    THEN Append(rerun_json,
                                [menu_jumps |-> menu_jumps, items |-> Items(filtered),
                                 line |-> cur_line])
                    ELSE rerun_json
          /\ output' = em.out
          /\ last' = em.last
    /\ tok_i' = tok_i + 1
    /\ UNCHANGED <<pc, inVars, output_lines, line_start, cur_line, fileVars,
                   envVars, blameVars, diffIn, diffVars>>

\* FinalLines without the test of the buffer.
FinalLinesAlways(lines, out, sym, stack) ==
    Append(lines, FormattedLine(fixup(out), sym, Len(stack)))

\* The lines after the last token has been handled: a last FormattedLine when
\* the buffer is not empty.
FinalLines(lines, out, sym, stack) ==
    IF OutputNonEmpty(out)
    THEN Append(lines, FormattedLine(fixup(out), sym, Len(stack)))
    ELSE lines

FinishCode ==
    /\ pc = "tokens"
    /\ tok_i > Len(tokens)
    /\ LET out == PushStr(output, entity_replace(Slice(input, last, Len(input))))
       IN /\ output' = out
          /\ output_lines' = FinalLines(output_lines, out, starts_nest, nesting_stack)
          /\ starts_nest' = IF OutputNonEmpty(out) THEN take(starts_nest) ELSE starts_nest
    /\ pc' = IF mode = "diff" THEN "rows" ELSE "lines"
    /\ begun' = TRUE
    /\ UNCHANGED <<inVars, tok_i, last, nesting_stack, line_start, cur_line,
                   cur_datum, generated_json, rerun_json, generated_sym_info, hist, line_i,
                   nest_depth, written, envVars, blameVars, diffIn, diffVars>>

\* blame::commit_header(commit)? returns Err once format_code has returned:
\* the render fails with nothing written.
CommitHeaderFails ==
    /\ pc = "tokens"
    /\ tok_i > Len(tokens)
    /\ pc' = "error"
    /\ UNCHANGED <<inVars, codeVars, fileVars, envVars, blameVars, diffIn, diffVars>>

-----------------------------------------------------------------------------
(* format_file_data: the blame of one line.                                *)

\* blame::LineData: rev, path ("%" when the path is unchanged) and lineno, the
\* line number as text.
LineData(rev, path, lineno) == [rev |-> rev, path |-> path, lineno |-> lineno]

is_path_unchanged(ld) == ld.path = "%"

\* blame_line.lineno.parse::<u32>().is_ok()
ParsesAsU32(lineno) == lineno \in {"1", "2", "3"}

\* Option::None for last_revs (a revs string is never empty) and for the
\* blame of the file.
NoRevs == <<>>
NoBlame == [some |-> FALSE, lines |-> <<>>]
SomeBlame(lines) == [some |-> TRUE, lines |-> lines]

\* let mut max_ignored_allowed = 5;
MaxIgnoredAllowed == 5

NoWalk ==
    [revs |-> <<>>, filespecs |-> <<>>, blame_linenos |-> <<>>,
     cur_rev |-> None, cur_path |-> None, cur_lineno |-> None,
     max_ignored_allowed |-> 0, human_id |-> 0]

\* HumanIdOf that takes a fresh id at every line.
HumanIdAlwaysNext(map, next, revs) == next

\* blame_hash_to_human_id.entry(revs.clone()).or_insert_with(...)
HumanIdOf(map, next, revs) == IF revs \in DOMAIN map THEN map[revs] ELSE next

InsertHumanId(map, next, revs) ==
    IF revs \in DOMAIN map THEN map
    ELSE [r \in (DOMAIN map) \cup {revs} |-> IF r = revs THEN next ELSE map[r]]

\* Start of one iteration of `for (i, line) in output_lines.iter().enumerate()`:
\* without blame the row can be emitted; with blame the walk of the line starts
\* from its LineData.  Reading lines[i] beyond the end of the blame panics.
LineStart ==
    /\ pc = "lines"
    /\ line_i < Len(output_lines)
    /\ IF ~blame_lines.some
       THEN /\ pc' = "emit"
            /\ UNCHANGED <<blameVars, hist>>
       ELSE IF line_i >= Len(blame_lines.lines)
       THEN /\ pc' = "panic"
            /\ UNCHANGED <<blameVars, hist>>
       ELSE LET blame_line == blame_lines.lines[line_i + 1]
                revs == <<blame_line.rev>>
            IN /\ walk' = [revs |-> revs,
                           filespecs |-> <<blame_line.path>>,
                           blame_linenos |-> <<blame_line.lineno>>,
                           cur_rev |-> blame_line.rev,
                           cur_path |-> IF is_path_unchanged(blame_line)
                                        THEN ThisPath ELSE blame_line.path,
                           cur_lineno |-> blame_line.lineno,
                           max_ignored_allowed |-> MaxIgnoredAllowed,
                           human_id |-> HumanIdOf(blame_hash_to_human_id,
                                                  next_human_id, revs)]
               /\ blame_hash_to_human_id' =
                      InsertHumanId(blame_hash_to_human_id, next_human_id, revs)
               /\ next_human_id' = IF revs \in DOMAIN blame_hash_to_human_id
                                   THEN next_human_id ELSE next_human_id + 1
               /\ hist' = [hist EXCEPT !.lookups = 0, !.stop = "none"]
               /\ pc' = "walk"
               /\ UNCHANGED <<last_revs, last_color>>
    /\ UNCHANGED <<inVars, tok_i, output, output_lines, last, nesting_stack,
                   starts_nest, line_start, cur_line, cur_datum, generated_json, rerun_json,
                   generated_sym_info, fileVars, envVars, diffIn, diffVars>>

\* WalkContinues without the test of the line number.
WalkContinuesUnparsed(w) == w.cur_rev \in ignored

\* while cur_lineno.is_ok() && git.should_ignore_for_blame(&cur_rev)
WalkContinues(w) == ParsesAsU32(w.cur_lineno) /\ w.cur_rev \in ignored

\* BudgetExhausted with the test one iteration late.
BudgetExhaustedLate(w) == w.max_ignored_allowed < 0

\* if max_ignored_allowed == 0
BudgetExhausted(w) == w.max_ignored_allowed = 0

\* FileSpec that writes the path of a record that reports one literally.
FileSpecLiteral(prev_line, prev_path, cur_path) ==
    IF is_path_unchanged(prev_line)
    THEN (IF prev_path = cur_path THEN "%" ELSE prev_path)
    ELSE prev_line.path

\* The path slot pushed for a hop.
FileSpec(prev_line, prev_path, cur_path) ==
    IF is_path_unchanged(prev_line)
    THEN (IF prev_path = cur_path THEN "%" ELSE prev_path)
    ELSE (IF prev_line.path = cur_path THEN "%" ELSE prev_line.path)

\* The path carried to the next iteration.
NextPath(prev_line, prev_path) ==
    IF is_path_unchanged(prev_line) THEN prev_path ELSE prev_line.path

\* Push an empty entry on the end of the three lists.
TruncatedRevsOnly(w) == [w EXCEPT !.revs = Append(@, ",")]

Truncated(w) ==
    [w EXCEPT !.revs = Append(@, ","),
              !.filespecs = Append(@, ","),
              !.blame_linenos = Append(@, ",")]

\* One hop: push the previous blame on the three lists and move to it.
Hopped(w, prev_line, prev_path) ==
    [w EXCEPT !.revs = @ \o <<",", prev_line.rev>>,
              !.filespecs = @ \o <<",", FileSpec(prev_line, prev_path, w.cur_path)>>,
              !.blame_linenos = @ \o <<",", prev_line.lineno>>,
              !.cur_rev = prev_line.rev,
              !.cur_path = NextPath(prev_line, prev_path),
              !.cur_lineno = prev_line.lineno]

walkFrame == <<inVars, tok_i, output, output_lines, last, nesting_stack,
               starts_nest, line_start, cur_line, cur_datum, generated_json, rerun_json,
               generated_sym_info, fileVars, envVars, blame_hash_to_human_id,
               next_human_id, last_revs, last_color, diffIn, diffVars>>

\* The loop condition is false: the walk ends on this revision.
WalkExit ==
    /\ pc = "walk"
    /\ ~WalkContinues(walk)
    /\ pc' = "emit"
    /\ hist' = [hist EXCEPT !.stop = "exit"]
    /\ UNCHANGED <<walk, walkFrame>>

\* The budget is used up and the revision is still ignored.
WalkTruncate ==
    /\ pc = "walk"
    /\ WalkContinues(walk)
    /\ BudgetExhausted(walk)
    /\ walk' = Truncated(walk)
    /\ pc' = "emit"
    /\ hist' = [hist EXCEPT !.stop = "budget"]
    /\ UNCHANGED walkFrame

\* A failed lookup that leaves the marker of a truncation.
LookupFailedTruncates(w) == Truncated([w EXCEPT !.max_ignored_allowed = @ - 1])

\* max_ignored_allowed -= 1; ... Err(e) => { info!(...); break; }
LookupFailed(w) == [w EXCEPT !.max_ignored_allowed = @ - 1]

\* find_prev_blame returns Err: the walk stops with what it has.
WalkLookupFails ==
    /\ pc = "walk"
    /\ WalkContinues(walk)
    /\ ~BudgetExhausted(walk)
    /\ walk' = LookupFailed(walk)
    /\ pc' = "emit"
    /\ hist' = [hist EXCEPT !.lookups = @ + 1, !.stop = "error"]
    /\ UNCHANGED walkFrame

\* find_prev_blame returns Ok((prev_blame_line, prev_path)).
WalkHop ==
    /\ pc = "walk"
    /\ WalkContinues(walk)
    /\ ~BudgetExhausted(walk)
    /\ \E prev \in prev_blames :
          LET hopped == Hopped([walk EXCEPT !.max_ignored_allowed = @ - 1],
                               prev.line, prev.path)
          IN /\ walk' = hopped
             /\ hist' = [hist EXCEPT !.lookups = @ + 1,
                                     !.hop = [some |-> TRUE, before |-> walk.cur_path,
                                              line |-> prev.line, path |-> prev.path,
                                              slot |-> hopped.filespecs[Len(hopped.filespecs)],
                                              after |-> hopped.cur_path]]
    /\ UNCHANGED <<pc, walkFrame>>

-----------------------------------------------------------------------------
(* format_file_data: the row of one line.                                  *)

\* SameRevAsLast on the leading revision alone.
SameLeadingRevAsLast(lastr, revs) == lastr # NoRevs /\ Head(lastr) = Head(revs)

\* let same_rev_as_last = last_revs.map_or(false, |last| last == revs);
SameRevAsLast(lastr, revs) == lastr # NoRevs /\ lastr = revs

\* Color that flips on every line.
ColorAlwaysFlips(same, lastc) == ~lastc

\* let color = if same_rev_as_last { last_color } else { !last_color };
Color(same, lastc) == IF same THEN lastc ELSE ~lastc

\* coverage: None, or Some(values).
NoCoverage == [some |-> FALSE, values |-> <<>>]
SomeCoverage(values) == [some |-> TRUE, values |-> values]

\* The value of a line the array has no entry for.
CoverageAtDefaultUncovered(cov, i) ==
    IF i + 1 <= Len(cov.values) THEN cov.values[i + 1] ELSE -1

\* coverage.get(i).unwrap_or(&-4)
CoverageAt(cov, i) ==
    IF i + 1 <= Len(cov.values) THEN cov.values[i + 1] ELSE -4

\* (x as f64).log10().floor() as u32: NaN, for a negative x, casts to 0.
RECURSIVE Log10Floor(_)
Log10Floor(x) == IF x < 10 THEN 0 ELSE 1 + Log10Floor(x \div 10)

\* The label of a hit with the thousands taken one count late.
HitLabelLate(x) ==
    IF x <= 1000 THEN [count |-> x, suffix |-> ""]
    ELSE [count |-> x \div 1000, suffix |-> "k"]

\* if *x < 1000 { *x } else { *x / 1000 }, if *x < 1000 { "" } else { "k" }
HitLabel(x) ==
    IF x < 1000 THEN [count |-> x, suffix |-> ""]
    ELSE [count |-> x \div 1000, suffix |-> "k"]

NoHit == [count |-> 0, suffix |-> ""]

\* The attributes of the coverage cell of a line.
CoverageCell(cov, i) ==
    IF ~cov.some
    THEN [class |-> "cov-strip cov-no-data", label |-> "", hit |-> NoHit,
          bucket |-> -1, has_data |-> FALSE, data |-> 0]
    ELSE LET x == CoverageAt(cov, i)
         IN CASE x = -4 -> [class |-> "cov-strip cov-uncovered cov-unknown",
                            label |-> "missing data", hit |-> NoHit,
                            bucket |-> -1, has_data |-> FALSE, data |-> 0]
              [] x = -3 -> [class |-> "cov-strip cov-miss cov-interpolated",
                            label |-> "uncovered", hit |-> NoHit,
                            bucket |-> -1, has_data |-> FALSE, data |-> 0]
              [] x = -2 -> [class |-> "cov-strip cov-hit cov-interpolated",
                            label |-> "uncovered", hit |-> NoHit,
                            bucket |-> -1, has_data |-> FALSE, data |-> 0]
              [] x = -1 -> [class |-> "cov-strip cov-uncovered cov-known",
                            label |-> "uncovered", hit |-> NoHit,
                            bucket |-> -1, has_data |-> FALSE, data |-> 0]
              [] x = 0 -> [class |-> "cov-strip cov-miss cov-known",
                           label |-> "miss", hit |-> NoHit,
                           bucket |-> -1, has_data |-> TRUE, data |-> 0]
              [] OTHER -> [class |-> "cov-strip cov-hit cov-known cov-log10-",
                           label |-> "hit", hit |-> HitLabel(x),
                           bucket |-> Log10Floor(x), has_data |-> TRUE, data |-> x]

NoBlameData ==
    [has |-> FALSE, class |-> 0, revs |-> <<>>, filespecs |-> <<>>,
     blame_linenos |-> <<>>, label |-> "", human_id |-> 0]

BlameData(w, same, color) ==
    [has |-> TRUE, class |-> IF color THEN 1 ELSE 2, revs |-> w.revs,
     filespecs |-> w.filespecs, blame_linenos |-> w.blame_linenos,
     label |-> IF same THEN "same" ELSE "new", human_id |-> w.human_id]

\* nest_depth after the container of a line that starts a nest is opened.
DepthAfterOpen(depth, line) ==
    IF line.sym_starts_nest # None THEN depth + 1 ELSE depth

\* nest_depth after `for _ in 0..line.pop_nest_count { nest_depth -= 1; ... }`
DepthAfterPops(depth, line) == depth - line.pop_nest_count

\* The rest of the iteration: colour band, container, row, closing </div>s.
EmitLine ==
    /\ pc = "emit"
    /\ LET line == output_lines[line_i + 1]
           same == SameRevAsLast(last_revs, walk.revs)
           color == Color(same, last_color)
           opened == DepthAfterOpen(nest_depth, line)
       IN /\ IF ~blame_lines.some
             THEN UNCHANGED <<last_revs, last_color>>
             ELSE /\ last_revs' = walk.revs
                  /\ last_color' = color
          /\ written' = Append(written,
                [lineno |-> line_i + 1,
                 coverage |-> CoverageCell(coverage, line_i),
                 nest_sym |-> line.sym_starts_nest,
                 depth |-> nest_depth,
                 blame |-> IF ~blame_lines.some THEN NoBlameData
                           ELSE BlameData(walk, same, color),
                 line |-> line.line,
                 pops |-> line.pop_nest_count,
                 stop |-> hist.stop,
                 lookups |-> hist.lookups,
                 end_rev |-> walk.cur_rev,
                 end_lineno |-> walk.cur_lineno])
          /\ nest_depth' = DepthAfterPops(opened, line)
    /\ line_i' = line_i + 1
    /\ walk' = NoWalk
    /\ pc' = "lines"
    /\ UNCHANGED <<inVars, tok_i, output, output_lines, last, nesting_stack,
                   starts_nest, line_start, cur_line, cur_datum, generated_json, rerun_json,
                   generated_sym_info, hist, envVars, blame_hash_to_human_id,
                   next_human_id, begun, diffIn, diffVars>>

\* After the last line: the closing </div>, the two JSON tables, the footer.
FinishFile ==
    /\ pc = "lines"
    /\ line_i >= Len(output_lines)
    /\ pc' = "done"
    /\ UNCHANGED <<inVars, codeVars, fileVars, envVars, blameVars, diffIn, diffVars>>

-----------------------------------------------------------------------------
(* format_diff: the reconstruction of the new text and of the rows.        *)

\* The lines that follow the first line starting with '@' that is not the last
\* line; all the lines when there is none.
RECURSIVE StripHeaderFrom(_, _)
StripHeaderFrom(ls, i) ==
    IF i > Len(ls) THEN ls
    ELSE IF Len(ls[i]) > 0 /\ ls[i][1] = "@" /\ i + 1 <= Len(ls)
         THEN SubSeq(ls, i + 1, Len(ls))
         ELSE StripHeaderFrom(ls, i + 1)

StripHeader(ls) == StripHeaderFrom(ls, 1)

\* if line.len() == 0 || line.starts_with('\\')
Skipped(line) == IF Len(line) = 0 THEN TRUE ELSE line[1] = "\\"

\* let (origin, content) = line.split_at(num_parents);
Origin(line, n) == SubSeq(line, 1, n)
Content(line, n) == SubSeq(line, n + 1, Len(line))

\* origin.contains(&'-')
HasMinus(origin) == \E k \in 1..Len(origin) : origin[k] = "-"

\* PullsFrom without the test for a deletion marker in the origin.
PullsFromNotPlus(origin, i) == origin[i] # "+"

\* The parents whose next blame entry this line pulls.
PullsFrom(origin, i) ==
    \/ HasMinus(origin) /\ origin[i] = "-"
    \/ ~HasMinus(origin) /\ origin[i] # "+"

\* A line that survives into the new text.
SurvivesFirstParentOnly(origin) == origin[1] # "-"

\* if !origin.contains(&'-')
Survives(origin) == ~HasMinus(origin)

\* PullBlames that keeps the entry of the first parent it pulled from.
RECURSIVE PullBlamesKeepFirst(_, _, _, _)
PullBlamesKeepFirst(origin, i, n, st) ==
    IF i > n \/ st.fail # "none" THEN st
    ELSE IF ~PullsFrom(origin, i) THEN PullBlamesKeepFirst(origin, i + 1, n, st)
    ELSE IF ~blames[i].some THEN [st EXCEPT !.fail = "error"]
    ELSE IF st.old[i] > Len(blames[i].lines) THEN [st EXCEPT !.fail = "panic"]
    ELSE PullBlamesKeepFirst(origin, i + 1, n,
            [st EXCEPT !.cur = IF st.cur.some THEN st.cur
                               ELSE [some |-> TRUE, parent |-> i,
                                     data |-> blames[i].lines[st.old[i]]],
                       !.old[i] = @ + 1,
                       !.pulled[i] = st.old[i]])

\* The loop `for i in 0..num_parents` over parents i.. of one line: st holds
\* cur_blame, the cursors and the failure met, if any.  A parent without blame
\* returns Err; reading past the end of a parent's blame panics.
\* (pulled: for each parent the index of the entry this line took, 0 if none.)
RECURSIVE PullBlames(_, _, _, _)
PullBlames(origin, i, n, st) ==
    IF i > n \/ st.fail # "none" THEN st
    ELSE IF ~PullsFrom(origin, i) THEN PullBlames(origin, i + 1, n, st)
    ELSE IF ~blames[i].some THEN [st EXCEPT !.fail = "error"]
    ELSE IF st.old[i] > Len(blames[i].lines) THEN [st EXCEPT !.fail = "panic"]
    ELSE PullBlames(origin, i + 1, n,
            [st EXCEPT !.cur = [some |-> TRUE, parent |-> i,
                                data |-> blames[i].lines[st.old[i]]],
                       !.old[i] = @ + 1,
                       !.pulled[i] = st.old[i]])

NoCurBlame == [some |-> FALSE, parent |-> 0, data |-> LineData("", "", "")]

diffFrame == <<inVars, codeVars, fileVars, envVars, blameVars, diffIn>>

\* One iteration of `for line in lines` on a line that is skipped.
DiffSkipLine ==
    /\ pc = "diff"
    /\ diff_i <= Len(diff_lines)
    /\ Skipped(diff_lines[diff_i])
    /\ diff_i' = diff_i + 1
    /\ UNCHANGED <<pc, diffFrame, new_lineno, old_lineno, new_lines, diff_output,
                   row_i, last_rev, diff_last_color, diff_written>>

\* One iteration of `for line in lines` on a content line.
DiffLine ==
    /\ pc = "diff"
    /\ diff_i <= Len(diff_lines)
    /\ ~Skipped(diff_lines[diff_i])
    /\ LET line == diff_lines[diff_i]
           origin == Origin(line, num_parents)
           content == Content(line, num_parents)
           st == PullBlames(origin, 1, num_parents,
                            [cur |-> NoCurBlame, old |-> old_lineno, fail |-> "none",
                             pulled |-> [i \in 1..num_parents |-> 0]])
           lno == IF Survives(origin) THEN new_lineno ELSE -1
       IN IF st.fail # "none"
          THEN /\ pc' = st.fail
               /\ UNCHANGED <<diff_i, new_lineno, old_lineno, new_lines, diff_output>>
          ELSE /\ old_lineno' = st.old
               /\ new_lines' = IF Survives(origin)
                               THEN new_lines \o content \o <<"\n">>
                               ELSE new_lines
               /\ new_lineno' = IF Survives(origin) THEN new_lineno + 1 ELSE new_lineno
               /\ diff_output' = Append(diff_output,
                                   [lno |-> lno, blame |-> st.cur, origin |-> origin,
                                    content |-> content, from |-> diff_i,
                                    pulled |-> st.pulled])
               /\ diff_i' = diff_i + 1
               /\ pc' = pc
    /\ UNCHANGED <<diffFrame, row_i, last_rev, diff_last_color, diff_written>>

\* After the loop: format_code renders the reconstructed text without
\* analysis data and without jumps.
DiffRender ==
    /\ pc = "diff"
    /\ diff_i > Len(diff_lines)
    /\ input' = new_lines
    /\ tokens' = Tokenize(new_lines)
    /\ pc' = "tokens"
    /\ UNCHANGED <<analysis, jumps, mode, codeVars, fileVars, envVars, blameVars,
                   diffIn, diffVars>>

\* RowContent that takes the last formatted line for out of range.
RowContentShort(lno, content, formatted_lines) ==
    IF lno > 0 /\ lno < Len(formatted_lines)
    THEN [formatted |-> TRUE, html |-> formatted_lines[lno].line]
    ELSE [formatted |-> FALSE, html |-> <<TextPiece(entity_replace(content))>>]

\* The content shown for a row.
RowContent(lno, content, formatted_lines) ==
    IF lno > 0 /\ lno < Len(formatted_lines) + 1
    THEN [formatted |-> TRUE, html |-> formatted_lines[lno].line]
    ELSE [formatted |-> FALSE, html |-> <<TextPiece(entity_replace(content))>>]

\* DiffColor that flips at every attributed row.
DiffColorAlwaysFlips(rev) == ~diff_last_color

\* let color = if last_rev == line_data.rev { last_color } else { !last_color };
DiffColor(rev) == IF last_rev = rev THEN diff_last_color ELSE ~diff_last_color

\* One iteration of `for &(lineno, blame, ref origin, content) in &output`.
DiffRow ==
    /\ pc = "rows"
    /\ row_i <= Len(diff_output)
    /\ LET row == diff_output[row_i]
           color == DiffColor(row.blame.data.rev)
       IN /\ IF row.blame.some
             THEN /\ last_rev' = row.blame.data.rev
                  /\ diff_last_color' = color
             ELSE UNCHANGED <<last_rev, diff_last_color>>
          /\ diff_written' = Append(diff_written,
                [lineno |-> row.lno,
                 blame |-> IF row.blame.some
                           THEN [has |-> TRUE, class |-> IF color THEN 1 ELSE 2,
                                 data |-> row.blame.data]
                           ELSE [has |-> FALSE, class |-> 0, data |-> row.blame.data],
                 origin |-> row.origin,
                 content |-> RowContent(row.lno, row.content, output_lines),
                 class |-> IF HasMinus(row.origin) THEN "minus-line"
                           ELSE IF \E k \in 1..Len(row.origin) : row.origin[k] = "+"
                           THEN "plus-line" ELSE ""])
    /\ row_i' = row_i + 1
    /\ UNCHANGED <<pc, diffFrame, diff_i, new_lineno, old_lineno, new_lines,
                   diff_output>>

\* After the last row: the closing </div> and the footer.
DiffFinish ==
    /\ pc = "rows"
    /\ row_i > Len(diff_output)
    /\ pc' = "done"
    /\ UNCHANGED <<diffFrame, diffVars>>

-----------------------------------------------------------------------------
(* Inputs.                                                                 *)

\* All texts of at most n characters over an alphabet.
Texts(alphabet, n) == UNION {[1..k -> alphabet] : k \in 0..n}

\* Records are ordered ascending by (line, col).
Before(r1, r2) ==
    \/ r1.lineno < r2.lineno
    \/ r1.lineno = r2.lineno /\ r1.col_start < r2.col_start

AnalysisLists(records, n) ==
    {an \in UNION {[1..k -> records] : k \in 0..n} :
        \A k \in 1..(Len(an) - 1) : Before(an[k], an[k + 1])}

Records(positions, datas) ==
    {Record(p[1], p[2], d) : p \in positions, d \in datas}

\* Sources that differ in their nesting range; the symbol names the range.
NestSource(sym, s, e) == Source(<<sym>>, <<>>, FALSE, None, s, e)

NestSources ==
    {NestSource("n00", 0, 0), NestSource("n12", 1, 2), NestSource("n13", 1, 3),
     NestSource("n14", 1, 4), NestSource("n24", 2, 4)}

NestPositions == {<<1, 0>>, <<1, 1>>, <<2, 0>>, <<2, 1>>}

NestDatas == {<<a>> : a \in NestSources}

\* Sources that differ in symbol, no_crossref and type information.
XrefSources ==
    {Source(<<"s1">>, <<"def">>, TRUE, "Foo", 0, 0),
     Source(<<"s1">>, <<>>, TRUE, "Bar", 0, 0),
     Source(<<"s1", "s2">>, <<"type">>, FALSE, "Foo", 0, 0),
     Source(<<"s2">>, <<>>, TRUE, None, 0, 0),
     Source(<<"s2">>, <<"use">>, FALSE, None, 1, 3)}

XrefPositions == {<<1, 0>>, <<1, 1>>, <<2, 0>>}

XrefDatas == {<<a>> : a \in XrefSources}

MaxXrefLen == 3

NoJumps == <<>>

Jump(path, lineno, pretty) == [path |-> path, lineno |-> lineno, pretty |-> pretty]

JumpTables ==
    {NoJumps,
     [sym \in {"s1", "s2"} |->
        IF sym = "s1" THEN Jump(ThisPath, 1, "one") ELSE Jump("g", 2, "two")]}

-----------------------------------------------------------------------------
(* Initial states.                                                         *)

\* The locals of format_code and of the line loop of format_file_data before
\* the first token.
CodeStart ==
    /\ tok_i = 1
    /\ output = <<>>
    /\ output_lines = <<>>
    /\ last = 0
    /\ nesting_stack = <<>>
    /\ starts_nest = None
    /\ line_start = 0
    /\ cur_line = 1
    /\ cur_datum = 0
    /\ generated_json = <<>>
    /\ rerun_json = <<>>
    /\ generated_sym_info = <<>>
    /\ line_i = 0
    /\ nest_depth = 0
    /\ written = <<>>
    /\ begun = FALSE
    /\ walk = NoWalk
    /\ blame_hash_to_human_id = <<>>
    /\ next_human_id = 1
    /\ last_revs = NoRevs
    /\ last_color = FALSE
    /\ hist = [pushed |-> <<>>, matched |-> <<>>, lookups |-> 0, stop |-> "none",
               boundary |-> [line |-> 0, before |-> <<>>, after |-> <<>>, pops |-> 0],
               cursor |-> [before |-> 0, skipped_to |-> 0, after |-> 0, line |-> 0,
                           column |-> 0, matched |-> FALSE],
               hop |-> [some |-> FALSE, before |-> "", line |-> LineData("", "", ""),
                        path |-> "", slot |-> "", after |-> ""]]

\* The locals of format_diff at the start of its line loop.
DiffStart ==
    /\ diff_i = 1
    /\ new_lineno = 1
    /\ old_lineno = [i \in 1..num_parents |-> 1]
    /\ new_lines = <<>>
    /\ diff_output = <<>>
    /\ row_i = 1
    /\ last_rev = ""
    /\ diff_last_color = FALSE
    /\ diff_written = <<>>

\* format_diff is not running.
NoDiff ==
    /\ num_parents = 0
    /\ blames = <<>>
    /\ diff_lines = <<>>
    /\ DiffStart

\* The state at the start of the token loop of format_code, called from
\* format_file_data with the given inputs.
InitFile(text, an, jt, blame, cov) ==
    /\ pc = "tokens"
    /\ mode = "file"
    /\ NoDiff
    /\ input = text
    /\ analysis = an
    /\ jumps = jt
    /\ tokens = Tokenize(text)
    /\ CodeStart
    /\ blame_lines = blame
    /\ coverage = cov

\* The same without coverage data.
InitWith(text, an, jt, blame) == InitFile(text, an, jt, blame, NoCoverage)

\* Nesting: identifiers and newlines, records with nesting ranges, no blame.
Init ==
    \E text \in Texts({"i", "\n"}, MaxTextLen),
       an \in AnalysisLists(Records(NestPositions, NestDatas), MaxRecords) :
        /\ InitWith(text, an, NoJumps, NoBlame)
        /\ ignored = {}
        /\ prev_blames = {}

Next ==
    \/ NewlineToken
    \/ OtherToken
    \/ FinishCode
    \/ LineStart
    \/ EmitLine
    \/ FinishFile

Spec == Init /\ [][Next]_vars

\* Cross-references: any text without analysis, or a short text with records
\* that carry symbols and type information and a jump table.
InitXref ==
    /\ \/ \E text \in Texts({"i", "k", "s", "c", "t", "<", " ", "\n"}, MaxTextLen) :
             InitWith(text, <<>>, NoJumps, NoBlame)
       \/ \E text \in Texts({"i", "k", "s", "\n"}, MaxXrefLen),
             an \in AnalysisLists(Records(XrefPositions, XrefDatas), MaxRecords),
             jt \in JumpTables :
             InitWith(text, an, jt, NoBlame)
    /\ ignored = {}
    /\ prev_blames = {}

SpecXref == InitXref /\ [][Next]_vars

\* Blame: a file of plain lines with the blame of each line.
Revs == {"a", "b"}

PlainLines(n) == Flatten([k \in 1..n |-> <<"t", "\n">>])

\* What find_prev_blame can return: Ok((prev_blame_line, prev_path)).
PrevBlame(ld, path) == [line |-> ld, path |-> path]

AllPrevBlames ==
    {PrevBlame(LineData(r, p, l), pp) :
        r \in Revs, p \in {"%", ThisPath, "g"}, l \in {"1", "x"},
        pp \in {ThisPath, "g"}}

MaxBlameLines == 2

\* Either one line whose walk can take any course, or several lines over a
\* history with one earlier revision.
InitBlame ==
    /\ \/ \E base \in {LineData(r, p, l) : r \in Revs, p \in {"%", "g"}, l \in {"1", "x"}},
             ign \in SUBSET Revs :
             /\ InitWith(PlainLines(1), <<>>, NoJumps, SomeBlame(<<base>>))
             /\ ignored = ign
             /\ prev_blames = AllPrevBlames
       \/ \E n \in 2..MaxBlameLines :
          \E lines \in [1..n -> {LineData(r, p, l) :
                                    r \in Revs, p \in {"%", "g"}, l \in {"1", "2"}}],
             ign \in {{}, {"a"}, {"a", "b"}} :
             /\ InitWith(PlainLines(n), <<>>, NoJumps, SomeBlame(lines))
             /\ ignored = ign
             /\ prev_blames = {PrevBlame(LineData("b", "%", "1"), ThisPath)}

NextBlame ==
    \/ NewlineToken
    \/ OtherToken
    \/ FinishCode
    \/ LineStart
    \/ WalkExit
    \/ WalkTruncate
    \/ WalkLookupFails
    \/ WalkHop
    \/ EmitLine
    \/ FinishFile

SpecBlame == InitBlame /\ [][NextBlame]_vars

\* Menus: records of one or two entries with one or two symbols, with and
\* without no_crossref, and jump tables in which two symbols share a target,
\* one symbol jumps to the first line of this file and one has no jump.
MenuSources ==
    {Source(<<"s1", "s2">>, <<>>, FALSE, None, 0, 0),
     Source(<<"s3">>, <<>>, FALSE, None, 0, 0),
     Source(<<"s1">>, <<>>, TRUE, None, 0, 0),
     Source(<<"s4">>, <<>>, FALSE, None, 0, 0)}

MenuDatas == {<<a>> : a \in MenuSources} \cup {<<a, b>> : a, b \in MenuSources}

MenuPositions == {<<1, 0>>, <<1, 1>>}

MenuJumpTables ==
    {NoJumps,
     [sym \in {"s1", "s2", "s3"} |->
        CASE sym = "s1" -> Jump(ThisPath, 1, "one")
          [] sym = "s2" -> Jump("g", 2, "two")
          [] OTHER -> Jump("g", 2, "three")],
     [sym \in {"s1", "s2", "s3"} |->
        CASE sym = "s1" -> Jump("g", 1, "one")
          [] sym = "s2" -> Jump(ThisPath, 2, "two")
          [] OTHER -> Jump("g", 2, "three")]}

MaxMenuText == 2
MaxMenuRecords == 2

InitMenu ==
    \E text \in Texts({"i", "k", "s", "\n"}, MaxMenuText),
       an \in AnalysisLists(Records(MenuPositions, MenuDatas), MaxMenuRecords),
       jt \in MenuJumpTables :
        /\ InitWith(text, an, jt, NoBlame)
        /\ ignored = {}
        /\ prev_blames = {}

SpecMenu == InitMenu /\ [][Next]_vars

\* Cursor: blanks, which are no tokens, among the identifiers, and records at
\* columns with and without a token.
CursorPositions == {<<l, c>> : l \in {1, 2}, c \in {0, 1, 2}}

CursorDatas == {<<Source(<<"s1">>, <<"use">>, FALSE, None, 0, 0)>>}

MaxCursorText == 4
MaxCursorRecords == 3

InitCursor ==
    \E text \in Texts({"i", " ", "\n"}, MaxCursorText),
       an \in AnalysisLists(Records(CursorPositions, CursorDatas), MaxCursorRecords) :
        /\ InitWith(text, an, NoJumps, NoBlame)
        /\ ignored = {}
        /\ prev_blames = {}

SpecCursor == InitCursor /\ [][Next]_vars

\* Rows: plain lines, with coverage counts for some first lines or for none,
\* and with blame for some first lines or for none.
CoverageValues == {-4, -3, -2, -1, 0, 1, 5, 9, 10, 999, 1000, 1500, 2147483647}

MaxRowLines == 2
MaxCoverageLen == 2

Coverages ==
    {NoCoverage} \cup
    {SomeCoverage(v) : v \in UNION {[1..k -> CoverageValues] : k \in 0..MaxCoverageLen}}

RowBlames ==
    {NoBlame} \cup
    {SomeBlame([k \in 1..n |-> LineData("a", "%", "1")]) : n \in 0..MaxRowLines}

InitRows ==
    \E n \in 0..MaxRowLines, cov \in Coverages, blame \in RowBlames :
        /\ InitFile(PlainLines(n), <<>>, NoJumps, blame, cov)
        /\ ignored = {}
        /\ prev_blames = {}

NextRows ==
    \/ NewlineToken
    \/ OtherToken
    \/ FinishCode
    \/ CommitHeaderFails
    \/ LineStart
    \/ WalkExit
    \/ EmitLine
    \/ FinishFile

SpecRows == InitRows /\ [][NextRows]_vars

\* Diffs: the lines of the text of a diff of one or two parents, a hunk header
\* among them, and per parent no blame or the first entries of that parent's
\* blame.
DiffLines(n) ==
    IF n = 1
    THEN {<<"@", "@">>, <<>>, <<"\\">>, <<" ", "t">>, <<"+", "t">>, <<"-", "t">>, <<"+", "<">>, <<"+">>,
          <<"-", "<">>}
    ELSE {<<"@", "@">>, <<>>, <<" ", " ", "t">>, <<"+", "+", "t">>, <<"+", " ", "t">>,
          <<" ", "+", "<">>, <<"-", "-", "t">>, <<"-", " ", "t">>, <<" ", "-", "t">>}

\* The blame of parent i: entry k is line k of that parent.
ParentBlame(i) ==
    IF i = 1
    THEN <<LineData("a", "%", "1"), LineData("a", "%", "2"), LineData("b", "%", "3"),
           LineData("a", "%", "4")>>
    ELSE <<LineData("b", "g", "1"), LineData("a", "g", "2"), LineData("a", "g", "3"),
           LineData("b", "g", "4")>>

MaxDiffLines == 3
MaxParentBlame == 3

ParentBlames(i) ==
    {NoBlame} \cup {SomeBlame(SubSeq(ParentBlame(i), 1, k)) : k \in 0..MaxParentBlame}

InitDiff ==
    /\ pc = "diff"
    /\ mode = "diff"
    /\ num_parents \in {1, 2}
    /\ blames \in IF num_parents = 1
                  THEN {<<b>> : b \in ParentBlames(1)}
                  ELSE {<<b1, b2>> : b1 \in ParentBlames(1), b2 \in ParentBlames(2)}
    /\ diff_lines \in {StripHeader(ls) :
                        ls \in UNION {[1..k -> DiffLines(num_parents)] : k \in 0..MaxDiffLines}}
    /\ DiffStart
    /\ input = <<>>
    /\ analysis = <<>>
    /\ jumps = NoJumps
    /\ tokens = <<>>
    /\ CodeStart
    /\ blame_lines = NoBlame
    /\ coverage = NoCoverage
    /\ ignored = {}
    /\ prev_blames = {}

NextDiff ==
    \/ DiffSkipLine
    \/ DiffLine
    \/ DiffRender
    \/ NewlineToken
    \/ OtherToken
    \/ FinishCode
    \/ DiffRow
    \/ DiffFinish

SpecDiff == InitDiff /\ [][NextDiff]_vars

-----------------------------------------------------------------------------
(* Properties.                                                             *)

RECURSIVE Sum(_)
Sum(ns) == IF ns = <<>> THEN 0 ELSE Head(ns) + Sum(Tail(ns))

Count(text, c) == Cardinality({k \in 1..Len(text) : text[k] = c})

\* format_code has returned.
Rendered == pc # "tokens"

\* The text ends with a non-empty line that has no terminating newline.
UnterminatedLast(text) == text # <<>> /\ text[Len(text)] # "\n"

\* C1: format_code returns one FormattedLine per newline of the text, plus
\* one more exactly when the text ends with a non-empty unterminated line.
C1_OneLinePerTextLine ==
    Rendered =>
        Len(output_lines) =
            Count(input, "\n") + (IF UnterminatedLast(input) THEN 1 ELSE 0)

\* C1 witness: a rendered text with terminated lines and an unterminated last one.
C1_Witness ==
    /\ pc = "done"
    /\ Count(input, "\n") >= 2
    /\ UnterminatedLast(input)
    /\ Len(output_lines) = Count(input, "\n") + 1

Opens(lines) == Cardinality({k \in 1..Len(lines) : lines[k].sym_starts_nest # None})

Pops(lines) == Sum([k \in 1..Len(lines) |-> lines[k].pop_nest_count])

\* C2: over the whole FormattedLine sequence the number of lines with an
\* opens-nesting marker equals the sum of the pop counts.
C2_OpensEqualPops ==
    Rendered => Opens(output_lines) = Pops(output_lines)

\* C3: the container depth of format_file_data is never negative.
C3_DepthNeverNegative == nest_depth >= 0

EmptyRange == [start_lineno |-> 0, end_lineno |-> 0]

\* The lines flushed so far and the line being built, as (number, marker).
Markers ==
    {<<k, output_lines[k].sym_starts_nest>> : k \in 1..Len(output_lines)}
        \cup (IF pc = "tokens" THEN {<<cur_line, starts_nest>>} ELSE {})

\* C4: a source with nesting range {0,0} is never pushed on the nesting stack
\* and never sets a line's marker: every stack entry and every logged push has
\* another range, and every marker is the symbol of a push logged for its line.
C4_EmptyRangeNeverNests ==
    /\ \A k \in 1..Len(nesting_stack) : nesting_stack[k].nesting_range # EmptyRange
    /\ \A k \in 1..Len(hist.pushed) : hist.pushed[k].src.nesting_range # EmptyRange
    /\ \A m \in Markers :
          m[2] # None =>
            \E k \in 1..Len(hist.pushed) :
                /\ hist.pushed[k].line = m[1]
                /\ hist.pushed[k].src.sym[1] = m[2]
                /\ hist.pushed[k].src.nesting_range # EmptyRange

\* C4 witness: sources with an empty range were processed, with the stack
\* empty and with the stack not empty, and other sources were pushed.
C4_Witness ==
    /\ pc = "done"
    /\ Len(hist.pushed) >= 1
    /\ \E j, k \in 1..Len(hist.matched) :
          /\ j < k
          /\ hist.matched[j].kind = "Identifier"
          /\ hist.matched[k].kind = "Identifier"
          /\ hist.matched[j].data[1].nesting_range = EmptyRange
          /\ hist.matched[k].data[1].nesting_range = EmptyRange
          /\ hist.pushed[1].line > hist.matched[j].line
          /\ hist.pushed[1].line <= hist.matched[k].line
          /\ hist.pushed[1].src.nesting_range.end_lineno - 1 > hist.matched[k].line

\* The sources of the records matched so far on tokens of the given kinds, in
\* the order met.
SeenOn(kinds) ==
    Flatten([k \in 1..Len(hist.matched) |->
                IF hist.matched[k].kind \in kinds THEN hist.matched[k].data ELSE <<>>])

TypedLocal(a, s) ==
    a.no_crossref /\ a.type_pretty # None /\ Len(a.sym) >= 1 /\ a.sym[1] = s

AllSymbols == {"s1", "s2", "n00", "n12", "n13", "n14", "n24"}

\* The table holds, for every symbol, the info of the first typed
\* no_crossref source of that symbol in seen, and nothing else.
FirstSightingWins(seen) ==
    \A s \in AllSymbols :
        LET at == {k \in 1..Len(seen) : TypedLocal(seen[k], s)}
        IN IF at = {} THEN s \notin DOMAIN generated_sym_info
           ELSE /\ s \in DOMAIN generated_sym_info
                /\ generated_sym_info[s] =
                      SymInfoObj(seen[CHOOSE k \in at : \A j \in at : k <= j])

\* C9 as stated: the entry of s is that of its first typed no_crossref source
\* seen on an Identifier or StringLiteral token.
C9_FirstOnAnyIdentifier ==
    FirstSightingWins(SeenOn({"Identifier", "IdentifierStyled", "StringLiteral"}))

\* C9 amended: the entry of s is that of its first typed no_crossref source
\* seen on an Identifier token without inline style or a StringLiteral token;
\* later occurrences neither add an entry nor replace it.
C9_FirstOnProcessedToken ==
    FirstSightingWins(SeenOn({"Identifier", "StringLiteral"}))

\* C9 witness: s1 was seen twice on processed tokens with different types.
C9_Witness ==
    /\ pc = "done"
    /\ LET seen == SeenOn({"Identifier", "StringLiteral"})
       IN \E j, k \in 1..Len(seen) :
             /\ j < k
             /\ TypedLocal(seen[j], "s1")
             /\ TypedLocal(seen[k], "s1")
             /\ seen[j].type_pretty # seen[k].type_pretty
    /\ "s1" \in DOMAIN generated_sym_info

\* All pieces of the lines flushed and of the line being built.
AllPieces ==
    {output[k] : k \in 1..Len(output)}
        \cup UNION {{output_lines[l].line[k] : k \in 1..Len(output_lines[l].line)} :
                        l \in 1..Len(output_lines)}

\* C10: with an empty analysis list and an empty jump table both tables stay
\* empty, no token gets a data-symbols or data-i attribute, an identifier
\* with an inline style is styled by it and one without gets no span.
C10_NoAnalysisNoData ==
    (analysis = <<>> /\ jumps = NoJumps) =>
        /\ generated_json = <<>>
        /\ generated_sym_info = <<>>
        /\ \A piece \in AllPieces :
              /\ ~piece.has_data
              /\ piece.idx = -1
              /\ piece.syms = <<>>
              /\ piece.tag = "span" => piece.txt # <<"i">>
              /\ (piece.tag = "span" /\ piece.txt = <<"k">>) => piece.style = InlineStyle
              /\ (piece.tag = "text") => \A k \in 1..Len(piece.txt) : piece.txt[k] # "k"

\* C10 witness: a text with both kinds of identifier rendered without analysis.
C10_Witness ==
    /\ pc = "done"
    /\ analysis = <<>>
    /\ jumps = NoJumps
    /\ Count(input, "i") >= 1
    /\ Count(input, "k") >= 1
    /\ Count(input, "s") >= 1

\* The blame chain of a written row: revisions, paths and line numbers.
Chain(row) == <<row.blame.revs, row.blame.filespecs, row.blame.blame_linenos>>

\* Rows k and k + 1 both carry blame.
AdjacentBlame(k) ==
    /\ k \in 1..(Len(written) - 1)
    /\ written[k].blame.has
    /\ written[k + 1].blame.has

\* C5: when two adjacent output lines have identical blame chains, the second
\* gets the colour band class of the first and the label "same".
C5_SameChainSameBand ==
    \A k \in 1..(Len(written) - 1) :
        (AdjacentBlame(k) /\ Chain(written[k]) = Chain(written[k + 1])) =>
            /\ written[k + 1].blame.class = written[k].blame.class
            /\ written[k + 1].blame.label = "same"

\* C5 witness: two adjacent lines with the same chain of two hops.
C5_Witness ==
    /\ pc = "done"
    /\ \E k \in 1..(Len(written) - 1) :
          /\ AdjacentBlame(k)
          /\ Chain(written[k]) = Chain(written[k + 1])
          /\ Len(written[k].blame.revs) >= 3
          /\ written[k + 1].blame.label = "same"

\* C6 as stated: when the full chain (revisions, paths, line numbers) of a
\* line differs from that of the preceding line, the band flips and the label
\* is "new".
C6_ChainChangeFlips ==
    \A k \in 1..(Len(written) - 1) :
        (AdjacentBlame(k) /\ Chain(written[k]) # Chain(written[k + 1])) =>
            /\ written[k + 1].blame.class # written[k].blame.class
            /\ written[k + 1].blame.label = "new"

\* C6 amended: when the revision list of the chain of a line differs from
\* that of the preceding line, the band flips and the label is "new".
C6_RevsChangeFlips ==
    \A k \in 1..(Len(written) - 1) :
        (AdjacentBlame(k) /\ written[k].blame.revs # written[k + 1].blame.revs) =>
            /\ written[k + 1].blame.class # written[k].blame.class
            /\ written[k + 1].blame.label = "new"

\* C6 witness: adjacent lines with the same leading revision and different
\* revision lists.
C6_Witness ==
    /\ pc = "done"
    /\ \E k \in 1..(Len(written) - 1) :
          /\ AdjacentBlame(k)
          /\ Head(written[k].blame.revs) = Head(written[k + 1].blame.revs)
          /\ written[k].blame.revs # written[k + 1].blame.revs
          /\ written[k + 1].blame.label = "new"

Last(q) == q[Len(q)]

\* The chain of a row ends with the truncation marker.
EndsTruncated(b) ==
    /\ Last(b.revs) = ","
    /\ Last(b.filespecs) = ","
    /\ Last(b.blame_linenos) = ","

\* C7: the walk of a line makes at most 5 previous-attribution lookups, and a
\* walk that stops with the budget used up and the revision still ignored
\* ends its chain with the truncation marker.
C7_WalkWithinBudget ==
    /\ hist.lookups <= MaxIgnoredAllowed
    /\ pc = "walk" => hist.lookups + walk.max_ignored_allowed = MaxIgnoredAllowed
    /\ \A k \in 1..Len(written) :
          /\ written[k].lookups <= MaxIgnoredAllowed
          /\ (/\ written[k].blame.has
              /\ written[k].lookups = MaxIgnoredAllowed
              /\ written[k].stop # "error"
              /\ written[k].end_rev \in ignored
              /\ ParsesAsU32(written[k].end_lineno))
             => EndsTruncated(written[k].blame)

\* C7 witness: a walk over five ignored revisions that was truncated.
C7_Witness ==
    /\ pc = "done"
    /\ ignored = Revs
    /\ \E k \in 1..Len(written) :
          /\ written[k].lookups = MaxIgnoredAllowed
          /\ written[k].stop = "budget"
          /\ EndsTruncated(written[k].blame)
          /\ Len(written[k].blame.revs) = 2 * MaxIgnoredAllowed + 2


\* The rows before row k of the diff whose origin has no deletion marker.
SurvivorsBefore(k) ==
    Cardinality({j \in 1..(k - 1) : ~HasMinus(diff_output[j].origin)})

\* C8: in the reconstruction of a diff, each processed content line gets the
\* next sequential new-line number (1, 2, 3, ...) if and only if its origin has
\* no deletion marker, and -1 otherwise; so a single-parent diff without any
\* deletion marker numbers its lines 1..n with no -1.
C8_DiffLineNumbers ==
    /\ \A k \in 1..Len(diff_output) :
          LET row == diff_output[k]
          IN /\ ~HasMinus(row.origin) <=> row.lno = SurvivorsBefore(k) + 1
             /\ HasMinus(row.origin) <=> row.lno = -1
    /\ (num_parents = 1 /\ \A k \in 1..Len(diff_output) : ~HasMinus(diff_output[k].origin))
          => \A k \in 1..Len(diff_output) : diff_output[k].lno = k

C8_Witness ==
    /\ pc = "done"
    /\ num_parents = 2
    /\ Len(diff_output) = 3
    /\ diff_output[1].lno = 1
    /\ diff_output[2].lno = -1
    /\ diff_output[2].origin[1] # "-"
    /\ diff_output[3].lno = 2


\* The render has failed: a typed failure was returned, or the thread panicked.
Failed == pc \in {"error", "panic"}

\* C11: no render fails after it has started writing: whenever a render has
\* failed, a short blame array included, nothing was written to the writer.
C11_NoFailureAfterOutput == Failed => ~begun

\* A positive count in the coverage array at row k.
PositiveCount(k) ==
    /\ coverage.some
    /\ k <= Len(coverage.values)
    /\ coverage.values[k] > 0

\* C13: the cell of a line with a positive count N has bucket floor(log10(N)),
\* data-coverage N, and a label that shows N when N < 1000 and N / 1000,
\* truncated, followed by "k" when N >= 1000.
C13_CoverageBuckets ==
    \A k \in 1..Len(written) :
        PositiveCount(k) =>
            LET N == coverage.values[k]
                cell == written[k].coverage
            IN /\ cell.has_data /\ cell.data = N
               /\ cell.bucket >= 0
               /\ (N \div (10 ^ cell.bucket)) \in 1..9
               /\ N < 1000 => cell.hit = [count |-> N, suffix |-> ""]
               /\ N >= 1000 => cell.hit = [count |-> N \div 1000, suffix |-> "k"]
               /\ N = 5 => cell.bucket = 0 /\ cell.hit.count = 5
               /\ N = 1500 => cell.bucket = 3 /\ cell.hit.suffix = "k"

\* C13 witness: a page with a line of count 5 and a line of count 1500.
C13_Witness ==
    /\ pc = "done"
    /\ Len(written) = 2
    /\ PositiveCount(1) /\ coverage.values[1] = 5
    /\ PositiveCount(2) /\ coverage.values[2] = 1500
    /\ written[2].coverage.bucket = 3
    /\ written[2].coverage.hit = [count |-> 1, suffix |-> "k"]

\* The cell of a line without data.
MissingData(cell) ==
    /\ cell.class = "cov-strip cov-uncovered cov-unknown"
    /\ cell.label = "missing data"
    /\ ~cell.has_data

\* C14: with a coverage array shorter than the page, each line beyond its end
\* is rendered as a line of value -4 is, and the render does not fail for it:
\* without a blame array every line is written and the render completes.
C14_ShortCoverageIsNoData ==
    /\ \A k \in 1..Len(written) :
          (coverage.some /\ (k > Len(coverage.values) \/ coverage.values[k] = -4))
             => MissingData(written[k].coverage)
    /\ (coverage.some /\ ~blame_lines.some /\ begun) =>
          /\ ~Failed
          /\ pc = "done" => Len(written) = Len(output_lines)

\* C14 witness: two lines, one count, of value -4: both cells are alike.
C14_Witness ==
    /\ pc = "done"
    /\ ~blame_lines.some
    /\ coverage.some
    /\ coverage.values = <<-4>>
    /\ Len(written) = 2
    /\ written[2].coverage = written[1].coverage
    /\ MissingData(written[2].coverage)


\* C12: a previous-attribution lookup that fails does not fail the render: the
\* line is written with the chain of the records obtained before the failure,
\* without truncation marker, and the lines after it are written too.
C12_LookupFailureDegrades ==
    /\ \A k \in 1..Len(written) :
          written[k].stop = "error" =>
             /\ written[k].blame.has
             /\ Len(written[k].blame.revs) = 2 * written[k].lookups - 1
             /\ Len(written[k].blame.filespecs) = 2 * written[k].lookups - 1
             /\ Len(written[k].blame.blame_linenos) = 2 * written[k].lookups - 1
             /\ ~EndsTruncated(written[k].blame)
    /\ (hist.stop = "error" /\ pc = "emit") => ~Failed
    /\ (\E k \in 1..Len(written) : written[k].stop = "error") =>
          /\ ~Failed
          /\ pc = "done" => Len(written) = Len(output_lines)

\* C12 witness: the lookup of the second hop of line 1 failed, and line 2 was
\* written after it.
C12_Witness ==
    /\ pc = "done"
    /\ Len(written) = 2
    /\ written[1].stop = "error"
    /\ written[1].lookups = 2
    /\ Len(written[1].blame.revs) = 3
    /\ written[2].blame.has


\* C15: a source is pushed only if its range starts at or after the current
\* line, starts on another line than the range on top of the stack, if any,
\* and ends after the next line, with an empty stack too.
C15_PushRule ==
    \A k \in 1..Len(hist.pushed) :
        LET p == hist.pushed[k]
        IN /\ p.src.nesting_range.start_lineno >= p.line
           /\ p.depth > 0 => p.src.nesting_range.start_lineno # p.top_start
           /\ p.src.nesting_range.end_lineno > p.line + 1

\* An entry that is still open after the line.
StaysOpen(a, line) == a.nesting_range.end_lineno - 1 > line

\* C16: at the newline that ends line L exactly the entries with
\* end_line - 1 <= L leave the stack, at any depth, and the pop count of the
\* line is their number.
C16_PopRule ==
    LET b == hist.boundary
    IN b.line > 0 =>
          /\ \A k \in 1..Len(b.after) : StaysOpen(b.after[k], b.line)
          /\ b.after = SelectSeq(b.before, LAMBDA a : StaysOpen(a, b.line))
          /\ b.pops = Len(b.before) - Len(b.after)
          /\ output_lines[b.line].pop_nest_count = b.pops

\* The pushes made while line n was processed, in order.
PushesOn(n) == SelectSeq(hist.pushed, LAMBDA p : p.line = n)

\* C17: the marker of a line on which sources were pushed is the canonical
\* symbol of the first of them; a line has one marker at most.
C17_FirstMarkerWins ==
    \A n \in 1..Len(output_lines) :
        PushesOn(n) # <<>> =>
            output_lines[n].sym_starts_nest = PushesOn(n)[1].src.sym[1]

\* C18: at most one source is pushed while one line is processed.
C18_OnePushPerLine ==
    \A n \in 1..cur_line : Len(PushesOn(n)) <= 1

\* C19: when the input has ended, the last line closes every container that
\* is still open: the final flushed line pops the whole remaining stack, and
\* no entry stays on the stack without such a line.
C19_FinalFlushPopsAll ==
    Rendered =>
        /\ UnterminatedLast(input) =>
              output_lines[Len(output_lines)].pop_nest_count = Len(nesting_stack)
        /\ ~UnterminatedLast(input) => nesting_stack = <<>>

\* The position of a record is before, at, after the position of the token.
RecordBefore(r, line, column) ==
    r.lineno < line \/ (r.lineno = line /\ r.col_start < column)
RecordAt(r, line, column) == r.lineno = line /\ r.col_start = column

\* C20: the cursor never moves back, a record is delivered to one token at
\* most, and on a token the cursor passes the records before the token, then
\* the token gets the record at the cursor exactly when line and column are
\* equal, the cursor moving past it; no record after the token is passed.
C20_CursorForwardOnly ==
    LET c == hist.cursor
    IN /\ c.before <= c.skipped_to /\ c.skipped_to <= c.after
       /\ c.after = cur_datum
       /\ cur_datum <= Len(analysis)
       /\ \A j, k \in 1..Len(hist.matched) :
             j # k => hist.matched[j].rec # hist.matched[k].rec
       /\ c.line > 0 =>
             /\ \A k \in (c.before + 1)..c.skipped_to :
                   RecordBefore(analysis[k], c.line, c.column)
             /\ c.skipped_to < Len(analysis) =>
                   ~RecordBefore(analysis[c.skipped_to + 1], c.line, c.column)
             /\ c.matched <=> /\ c.skipped_to < Len(analysis)
                              /\ RecordAt(analysis[c.skipped_to + 1], c.line, c.column)
             /\ c.after = IF c.matched THEN c.skipped_to + 1 ELSE c.skipped_to

\* C20 witness: a token passed a record before it and got the record at its
\* own position, and a later token found no record.
C20_Witness ==
    /\ Rendered
    /\ Len(analysis) = 3
    /\ Len(hist.matched) = 1
    /\ hist.matched[1].rec = 2
    /\ hist.cursor.before = 2
    /\ hist.cursor.after = 2
    /\ ~hist.cursor.matched


\* The tokens whose record format_code processes.
Processed(m) == m.kind \in {"Identifier", "StringLiteral"}

\* C21 as stated: the data-symbols value of a token is the comma-joined list
\* of the canonical (first) symbol of each entry of its record, one symbol per
\* entry in entry order, the no_crossref entries included.
C21_CanonicalSymbolsJoined ==
    \A k \in 1..Len(hist.matched) :
        LET m == hist.matched[k]
        IN Processed(m) => m.attr.has /\ m.attr.syms = Join(CanonicalSyms(m.data))

\* The symbols of the entries of a record: for each entry in entry order, each
\* of its symbols in order.
RECURSIVE EverySymbol(_)
EverySymbol(d) == IF d = <<>> THEN <<>> ELSE Head(d).sym \o EverySymbol(Tail(d))

\* C21 amended: the data-symbols value of a token is the comma-joined list of
\* every symbol of every entry of its record, in entry order and in the order
\* of the symbols of the entry, the no_crossref entries included.
C21_EverySymbolJoined ==
    \A k \in 1..Len(hist.matched) :
        LET m == hist.matched[k]
        IN Processed(m) => m.attr.has /\ m.attr.syms = Join(EverySymbol(m.data))

\* C21 witness: a record of a no_crossref entry and an entry of two symbols.
C21_Witness ==
    /\ Rendered
    /\ \E k \in 1..Len(hist.matched) :
          LET m == hist.matched[k]
          IN /\ Processed(m)
             /\ Len(m.data) = 2
             /\ m.data[1].no_crossref
             /\ Len(m.data[2].sym) = 2
             /\ m.attr.syms = <<"s1", ",", "s1", ",", "s2">>


\* The target of a menu jump: the jump-table entry of its symbol.
Target(mj) == <<jumps[mj.sym].path, jumps[mj.sym].lineno>>

\* The symbols joined in the `sym` of an item of the occurrence table.
ItemSymbols(item) == {item.sym[k] : k \in 1..Len(item.sym)} \ {","}

\* The record whose token appended entry n of the occurrence table.
RecordOf(n) ==
    LET k == CHOOSE j \in 1..Len(hist.matched) : hist.matched[j].attr.idx = n - 1
    IN hist.matched[k].data

\* C22: in every entry of the occurrence table the menu jumps have pairwise
\* distinct targets (path, line), none targets the path and line of the token,
\* and each comes from a symbol with a jump-table entry of an entry of the
\* record that is not no_crossref.
C22_MenuJumpsDistinctNoSelf ==
    \A n \in 1..Len(generated_json) :
        LET e == generated_json[n]
        IN /\ \A a, b \in 1..Len(e.menu_jumps) :
                 a # b => Target(e.menu_jumps[a]) # Target(e.menu_jumps[b])
           /\ \A a \in 1..Len(e.menu_jumps) :
                 LET mj == e.menu_jumps[a]
                 IN /\ mj.sym \in DOMAIN jumps
                    /\ Target(mj) # <<ThisPath, e.line>>
                    /\ mj.pretty = jumps[mj.sym].pretty
                    /\ \E k \in 1..Len(RecordOf(n)) :
                          /\ ~RecordOf(n)[k].no_crossref
                          /\ \E j \in 1..Len(RecordOf(n)[k].sym) :
                                RecordOf(n)[k].sym[j] = mj.sym

\* C22 witness: a record with jumps for s1, s2 and s3 on line 1, where s1
\* jumps to line 1 of this file and s2 and s3 share a target: one menu jump.
C22_Witness ==
    /\ Rendered
    /\ "s1" \in DOMAIN jumps
    /\ jumps["s1"].path = ThisPath
    /\ \E n \in 1..Len(generated_json) :
          /\ generated_json[n].line = 1
          /\ Len(generated_json[n].items) = 2
          /\ ItemSymbols(generated_json[n].items[1]) = {"s1", "s2"}
          /\ ItemSymbols(generated_json[n].items[2]) = {"s3"}
          /\ Len(generated_json[n].menu_jumps) = 1

\* The tokens before token k of the matched ones that got an occurrence index.
IndexedBefore(k) ==
    Cardinality({j \in 1..(k - 1) : hist.matched[j].attr.idx >= 0})

\* A record with an entry that is not no_crossref.
HasCrossref(d) == \E j \in 1..Len(d) : ~d[j].no_crossref

\* What C23 says of the matched token k.
IndexRule(k) ==
    LET m == hist.matched[k]
    IN /\ m.attr.has
       /\ m.attr.idx >= 0 <=> HasCrossref(m.data)
       /\ m.attr.idx >= 0 => m.attr.idx = IndexedBefore(k) /\ m.attr.idx = m.table
       /\ m.attr.idx < 0 => m.attr.idx = -1

\* The table has one entry per occurrence index given, in the order given.
TableMatchesIndexes ==
    /\ Len(generated_json) = IndexedBefore(Len(hist.matched) + 1)
    /\ \A k \in 1..Len(hist.matched) :
          hist.matched[k].table = IndexedBefore(k)

\* C23 as stated: every token with a matched record gets an occurrence index
\* exactly when its record has an entry that is not no_crossref, the index is
\* the position of the entry appended to the table for it (0, 1, 2, ... in
\* emission order, as many as the table is long), and a token whose entries
\* are all no_crossref gets data-symbols only and leaves the table unchanged.
C23_IndexForEveryMatchedToken ==
    /\ TableMatchesIndexes
    /\ \A k \in 1..Len(hist.matched) : IndexRule(k)

\* C23 amended: the same for the tokens that are identifiers without inline
\* style or string literals; a token of another kind gets no data attribute
\* and leaves the table unchanged, whatever record it matches.
C23_IndexForProcessedToken ==
    /\ TableMatchesIndexes
    /\ \A k \in 1..Len(hist.matched) :
          IF Processed(hist.matched[k]) THEN IndexRule(k)
          ELSE ~hist.matched[k].attr.has /\ hist.matched[k].attr.idx = -1

\* C23 witness: a token without index between two tokens with indexes 0, 1.
C23_Witness ==
    /\ Rendered
    /\ Len(hist.matched) = 2
    /\ Len(generated_json) = 1
    /\ hist.matched[1].attr.has
    /\ hist.matched[1].attr.idx = -1
    /\ hist.matched[2].attr.idx = 0


\* The hops appended to a chain: its revisions after the leading one.
HopsOf(b) == (Len(b.revs) - 1) \div 2

\* The chain holds the full budget of hops and the revision of the last of
\* them is reported ignorable.
FullBudgetStillIgnored(b) ==
    /\ HopsOf(b) = MaxIgnoredAllowed
    /\ b.revs[2 * MaxIgnoredAllowed + 1] \in ignored

\* The walks that stop without truncation: on a lookup failure with the chain
\* as it is, on a revision that is not ignorable with that revision last.
StopsWithoutSlot(row) ==
    /\ row.stop = "error" => ~EndsTruncated(row.blame)
    /\ (row.stop = "exit" /\ row.end_rev \notin ignored) =>
          /\ ~EndsTruncated(row.blame)
          /\ Last(row.blame.revs) = row.end_rev

\* C24 as stated: the chain of a line ends with the empty slot exactly when
\* the walk appended five hops and the revision of the fifth is still
\* ignorable; a walk that stops on a revision that is not ignorable, or on a
\* lookup failure, appends no empty slot, and the former ends with that
\* revision.
C24_TruncatedIffBudgetUsed ==
    \A k \in 1..Len(written) :
        written[k].blame.has =>
            /\ EndsTruncated(written[k].blame) <=> FullBudgetStillIgnored(written[k].blame)
            /\ StopsWithoutSlot(written[k])

\* C24 amended: ... exactly when the walk appended five hops, the revision of
\* the fifth is still ignorable and the line number of the fifth parses as an
\* unsigned integer (the walk also stops, without empty slot, on a line number
\* that does not parse).
C24_TruncatedIffBudgetUsedAndParsed ==
    \A k \in 1..Len(written) :
        written[k].blame.has =>
            /\ EndsTruncated(written[k].blame) <=>
                  /\ FullBudgetStillIgnored(written[k].blame)
                  /\ ParsesAsU32(written[k].blame.blame_linenos[2 * MaxIgnoredAllowed + 1])
            /\ StopsWithoutSlot(written[k])

\* C24 witness: five hops, the fifth on an ignorable revision with a line
\* number that does not parse: the chain has no empty slot.
C24_Witness ==
    /\ pc = "done"
    /\ \E k \in 1..Len(written) :
          /\ written[k].blame.has
          /\ FullBudgetStillIgnored(written[k].blame)
          /\ ~ParsesAsU32(written[k].end_lineno)
          /\ written[k].stop = "exit"
          /\ ~EndsTruncated(written[k].blame)


\* The path carried forward after a hop: the previous path the lookup resolved
\* if the previous record reports its path unchanged, else the record's path.
CarriedPath(hop) == IF hop.line.path = "%" THEN hop.path ELSE hop.line.path

\* C25: the path slot appended for a hop is the "unchanged" marker exactly
\* when the path carried forward after the hop equals the path before it, and
\* is the carried path, written literally, otherwise.
C25_PathSlot ==
    hist.hop.some =>
        /\ hist.hop.after = CarriedPath(hist.hop)
        /\ (hist.hop.slot = "%") <=> (CarriedPath(hist.hop) = hist.hop.before)
        /\ (hist.hop.slot # "%") => (hist.hop.slot = CarriedPath(hist.hop))
        /\ (pc = "walk" /\ hist.lookups > 0) =>
               /\ Last(walk.filespecs) = hist.hop.slot
               /\ walk.cur_path = hist.hop.after

\* C25 witness: a file that had moved to g and moved back: the record of the
\* hop names the path of the file itself.
C25_Witness ==
    /\ pc = "walk"
    /\ hist.hop.some
    /\ hist.hop.before = ThisPath
    /\ hist.hop.line.path = ThisPath
    /\ hist.hop.path = "g"
    /\ hist.hop.slot = "%"


\* The leading revisions of the first k rows written.
LeadingRevs(k) == {written[j].blame.revs[1] : j \in 1..k}

\* The display ids of the first k rows written.
HumanIds(k) == {written[j].blame.human_id : j \in 1..k}

\* C26: the display ids are 1, 2, 3, ... in the order of first sighting of the
\* leading revision of the lines: a first sighting takes the next id, a line
\* has the id of the first sighting of its leading revision, two revisions
\* never share an id, and after every prefix of lines the ids in use are 1..k
\* for k distinct leading revisions.
C26_HumanIdsInFirstSightingOrder ==
    (blame_lines.some /\ mode = "file") =>
        \A k \in 1..Len(written) :
            /\ written[k].blame.has
            /\ HumanIds(k) = 1..Cardinality(LeadingRevs(k))
            /\ written[k].blame.revs[1] \notin LeadingRevs(k - 1) =>
                  written[k].blame.human_id = Cardinality(LeadingRevs(k - 1)) + 1
            /\ \A j \in 1..k :
                  (written[j].blame.revs[1] = written[k].blame.revs[1])
                      <=> (written[j].blame.human_id = written[k].blame.human_id)

\* C26 witness: a second line on a new leading revision after a first one.
C26_Witness ==
    /\ blame_lines.some
    /\ Len(written) >= 2
    /\ written[1].blame.revs[1] # written[2].blame.revs[1]
    /\ written[1].blame.human_id = 1
    /\ written[2].blame.human_id = 2


\* A line whose origin makes parent i advance: a deletion marker for parent i
\* when the origin has one, no addition marker for parent i when it has none.
AdvancesCursor(origin, i) ==
    IF \E k \in 1..Len(origin) : origin[k] = "-"
    THEN origin[i] = "-"
    ELSE origin[i] # "+"

\* The rows among the first n whose line advances the cursor of parent i.
AdvancingRows(i, n) == {j \in 1..n : AdvancesCursor(diff_output[j].origin, i)}

\* C27: the cursor of parent i advances by one on each content line whose
\* origin has a deletion marker for parent i, or has no deletion marker and no
\* addition marker for parent i, and on no other line (skipped lines leave no
\* row and no change); the k-th such line pulls entry k of the blame of parent i.
C27_CursorAdvance ==
    mode = "diff" =>
        \A i \in 1..num_parents :
            /\ old_lineno[i] = 1 + Cardinality(AdvancingRows(i, Len(diff_output)))
            /\ \A j \in 1..Len(diff_output) :
                  diff_output[j].pulled[i] =
                      IF AdvancesCursor(diff_output[j].origin, i)
                      THEN Cardinality(AdvancingRows(i, j))
                      ELSE 0

\* C27 witness: of two parents, after a skipped line, a line deleted from the
\* first parent only pulls the second entry of the first parent and leaves the
\* cursor of the second parent where it was.
C27_Witness ==
    /\ num_parents = 2
    /\ \E j \in 1..Len(diff_output) :
          /\ diff_output[j].origin = <<"-", " ">>
          /\ diff_output[j].pulled = <<2, 0>>
          /\ diff_output[j].from > j
    /\ old_lineno = <<3, 1>>


\* The parents whose character in the origin is a deletion marker.
DeletedFrom(origin) == {i \in 1..Len(origin) : origin[i] = "-"}

\* The parents whose cursor the line advances.
AdvancedParents(origin) == {i \in 1..Len(origin) : AdvancesCursor(origin, i)}

Min(S) == CHOOSE x \in S : \A y \in S : x <= y
Max(S) == CHOOSE x \in S : \A y \in S : x >= y

\* The blame of the row is the entry the line pulled from parent i.
AttributedTo(row, i) ==
    /\ row.blame.some
    /\ row.blame.parent = i
    /\ row.pulled[i] > 0
    /\ row.blame.data = blames[i].lines[row.pulled[i]]

\* C28 as stated: the attribution of a diff row is the entry pulled from the
\* first parent whose origin character is a deletion marker, and none when no
\* parent has a deletion marker.
C28_FirstDeletionParent ==
    mode = "diff" =>
        \A j \in 1..Len(diff_output) :
            IF DeletedFrom(diff_output[j].origin) # {}
            THEN AttributedTo(diff_output[j], Min(DeletedFrom(diff_output[j].origin)))
            ELSE ~diff_output[j].blame.some

\* C28 amended: the attribution of a diff row is the entry pulled from the
\* last parent whose cursor the line advances (C27), and none only when the
\* line advances no cursor: every parent has an addition marker.
C28_LastAdvancedParent ==
    mode = "diff" =>
        \A j \in 1..Len(diff_output) :
            IF AdvancedParents(diff_output[j].origin) # {}
            THEN AttributedTo(diff_output[j], Max(AdvancedParents(diff_output[j].origin)))
            ELSE /\ ~diff_output[j].blame.some
                 /\ \A i \in 1..num_parents : diff_output[j].origin[i] = "+"

\* C28 witness: a line deleted from both parents takes the entry of the
\* second, and a line without markers is attributed as well.
C28_Witness ==
    /\ num_parents = 2
    /\ \E j \in 1..Len(diff_output) :
          /\ diff_output[j].origin = <<"-", "-">>
          /\ AttributedTo(diff_output[j], 2)
          /\ diff_output[j].pulled[1] > 0
    /\ \E j \in 1..Len(diff_output) :
          /\ diff_output[j].origin = <<" ", " ">>
          /\ AttributedTo(diff_output[j], 2)


\* Parent i has no entry at its cursor: no blame, or the blame is exhausted.
EntryMissing(i) ==
    IF blames[i].some THEN old_lineno[i] > Len(blames[i].lines) ELSE TRUE

\* The line under the loop is a content line that advances the cursor of a
\* parent that has no entry there.
RequiresMissingEntry ==
    /\ diff_i <= Len(diff_lines)
    /\ IF Skipped(diff_lines[diff_i]) THEN FALSE
       ELSE \E i \in 1..num_parents :
               /\ AdvancesCursor(Origin(diff_lines[diff_i], num_parents), i)
               /\ EntryMissing(i)

\* The reconstruction has stopped, with an error value or with a panic.
DiffAborted == pc \in {"error", "panic"}

\* C29: a content line that requires the next entry of a parent that has none
\* (no blame for the parent, or its blame exhausted) makes format_diff abort
\* with a typed failure, nothing written; it aborts so only on such a line, and
\* no row is recorded with an entry that was not there.
C29_MissingEntryIsTypedFailure ==
    mode = "diff" =>
        /\ DiffAborted =>
              /\ pc = "error"
              /\ diff_written = <<>>
              /\ ~begun
              /\ RequiresMissingEntry
        /\ (pc = "diff" /\ RequiresMissingEntry) => ~ENABLED DiffRender
        /\ \A j \in 1..Len(diff_output) : \A i \in 1..num_parents :
              diff_output[j].pulled[i] > 0 =>
                  /\ blames[i].some
                  /\ diff_output[j].pulled[i] <= Len(blames[i].lines)


\* The largest new-line number assigned to a row, 0 if none has a number.
LargestNewLineno ==
    IF \E j \in 1..Len(diff_output) : diff_output[j].lno > 0
    THEN Max({diff_output[j].lno : j \in {h \in 1..Len(diff_output) : diff_output[h].lno > 0}})
    ELSE 0

\* C30: a row with new-line number n >= 1 is shown with the n-th
\* FormattedLine of the reconstructed text, a row with the -1 sentinel with
\* its escaped raw content; the FormattedLines are at least as many as the
\* largest new-line number, so no numbered row falls back to raw content.
C30_NumberedRowsShowFormattedLines ==
    (mode = "diff" /\ pc \in {"rows", "done"}) =>
        /\ Len(output_lines) >= LargestNewLineno
        /\ \A k \in 1..Len(diff_written) :
              /\ diff_written[k].lineno = diff_output[k].lno
              /\ diff_written[k].lineno >= 1 \/ diff_written[k].lineno = -1
              /\ IF diff_written[k].lineno >= 1
                 THEN /\ diff_written[k].content.formatted
                      /\ diff_written[k].content.html =
                             output_lines[diff_written[k].lineno].line
                 ELSE /\ ~diff_written[k].content.formatted
                      /\ diff_written[k].content.html =
                             <<TextPiece(entity_replace(diff_output[k].content))>>

\* C30 witness: a diff rendered to the end with a deleted line "<", shown
\* escaped, and a numbered row shown with the last FormattedLine.
C30_Witness ==
    /\ mode = "diff"
    /\ pc = "done"
    /\ \E k \in 1..Len(diff_written) :
          /\ diff_written[k].lineno = -1
          /\ diff_output[k].content = <<"<">>
          /\ diff_written[k].content.html # <<TextPiece(diff_output[k].content)>>
    /\ \E k \in 1..Len(diff_written) :
          /\ diff_written[k].lineno = Len(output_lines)
          /\ diff_written[k].content.formatted


\* The attributed rows among the first n written.
AttributedRows(n) == {j \in 1..n : diff_written[j].blame.has}

\* C31: in diff mode the band of an attributed row differs from the band of
\* the previous attributed row exactly when their revisions differ; the
\* revision is that of the row's own attribution record, no chain is walked;
\* rows without attribution leave the band and the remembered revision as the
\* last attributed row left them.
C31_DiffBandFlipsOnRevisionChange ==
    mode = "diff" =>
        /\ \A k \in 1..Len(diff_written) :
              /\ diff_written[k].blame.has = diff_output[k].blame.some
              /\ diff_written[k].blame.has =>
                    /\ diff_written[k].blame.data = diff_output[k].blame.data
                    /\ diff_written[k].blame.class \in {1, 2}
                    /\ AttributedRows(k - 1) # {} =>
                          LET p == Max(AttributedRows(k - 1))
                          IN (diff_written[k].blame.class = diff_written[p].blame.class)
                                <=> (diff_written[k].blame.data.rev =
                                        diff_written[p].blame.data.rev)
        /\ IF AttributedRows(Len(diff_written)) = {}
           THEN last_rev = "" /\ diff_last_color = FALSE
           ELSE LET p == Max(AttributedRows(Len(diff_written)))
                IN /\ last_rev = diff_written[p].blame.data.rev
                   /\ diff_last_color = (diff_written[p].blame.class = 1)
        /\ walk = NoWalk

\* C31 witness: two attributed rows of one revision around a row without
\* attribution keep the band; the row between them left it alone.
C31_Witness ==
    /\ mode = "diff"
    /\ Len(diff_written) = 3
    /\ diff_written[1].blame.has
    /\ ~diff_written[2].blame.has
    /\ diff_written[3].blame.has
    /\ diff_written[1].blame.data.rev = diff_written[3].blame.data.rev
    /\ diff_written[1].blame.class = diff_written[3].blame.class


\* The record of the matched token m was processed: data-symbols of all its
\* symbols, an occurrence index when an entry is not no_crossref, symbol
\* information for its typed locals, a push when an entry nests.
EntriesProcessed(m) ==
    /\ m.attr.has
    /\ m.attr.syms = Join(Flatten([j \in 1..Len(m.data) |-> m.data[j].sym]))
    /\ HasCrossref(m.data) => m.attr.idx = m.table
    /\ \A j \in 1..Len(m.data) :
          (m.data[j].no_crossref /\ m.data[j].type_pretty # None /\ Len(m.data[j].sym) >= 1)
              => m.data[j].sym[1] \in m.info_after
    /\ (\E j \in 1..Len(m.data) : Nests(m.data[j], m.stack, m.line)) => m.pushes >= 1

\* The matched token m left no trace of its record.
EntriesIgnored(m) ==
    /\ ~m.attr.has
    /\ m.attr.idx = -1
    /\ m.pushes = 0
    /\ m.info_after = m.info

\* C32 as stated: every Identifier token, with or without inline style, and
\* every StringLiteral token with a matched record gets data-symbols and has
\* the entries of the record processed.
C32_EveryIdentifierProcessed ==
    \A k \in 1..Len(hist.matched) :
        hist.matched[k].kind \in {"Identifier", "IdentifierStyled", "StringLiteral"}
            => EntriesProcessed(hist.matched[k])

\* C32 amended: every Identifier token without inline style and every
\* StringLiteral token with a matched record gets data-symbols and has the
\* entries processed; a matched token of any other kind, an Identifier with
\* inline style included, gets no data attribute and its record is ignored.
C32_UnstyledIdentifierProcessed ==
    \A k \in 1..Len(hist.matched) :
        IF hist.matched[k].kind \in {"Identifier", "StringLiteral"}
        THEN EntriesProcessed(hist.matched[k])
        ELSE EntriesIgnored(hist.matched[k])

\* C32 witness: a styled identifier whose record holds a typed local and an
\* unstyled one whose record made a push.
C32_Witness ==
    /\ pc = "done"
    /\ \E k \in 1..Len(hist.matched) :
          /\ hist.matched[k].kind = "IdentifierStyled"
          /\ \E j \in 1..Len(hist.matched[k].data) :
                /\ hist.matched[k].data[j].no_crossref
                /\ hist.matched[k].data[j].type_pretty # None
                /\ hist.matched[k].data[j].sym[1] \notin DOMAIN generated_sym_info
          /\ EntriesIgnored(hist.matched[k])
    /\ \E k \in 1..Len(hist.matched) :
          /\ hist.matched[k].kind = "Identifier"
          /\ hist.matched[k].pushes >= 1


\* C33: a second render of the same text, analysis list and jump table gives
\* the same occurrence table, the order of the menu jumps of each entry
\* included, also when a token has jumps to two or more distinct targets.
C33_SameTableOnRerender ==
    generated_json = rerun_json


\* The number of elements of a comma-joined list: one more than its commas.
Elements(list) == 1 + Cardinality({k \in 1..Len(list) : list[k] = ","})

\* The elements a walk has appended after lookups lookups: one per lookup that
\* succeeded, and the empty one of the truncation marker.
Appended(lookups, stop) ==
    CASE stop = "error"  -> lookups - 1
      [] stop = "budget" -> lookups + 1
      [] OTHER           -> lookups

\* The three lists have n elements each.
ListsOfLength(revs, filespecs, blame_linenos, n) ==
    /\ Elements(revs) = n
    /\ Elements(filespecs) = n
    /\ Elements(blame_linenos) = n

\* C34: at every step of the walk of a line and in the data-blame value
\* written, the lists of revisions, path slots and line numbers have the same
\* number of elements: one for the line's own blame, one per hop, and one,
\* empty, for the truncation marker.
C34_ListsSameLength ==
    /\ (blame_lines.some /\ pc \in {"walk", "emit"}) =>
          ListsOfLength(walk.revs, walk.filespecs, walk.blame_linenos,
                        1 + Appended(hist.lookups, hist.stop))
    /\ \A k \in 1..Len(written) :
          written[k].blame.has =>
              /\ ListsOfLength(written[k].blame.revs, written[k].blame.filespecs,
                               written[k].blame.blame_linenos,
                               1 + Appended(written[k].lookups, written[k].stop))
              /\ written[k].stop = "budget" =>
                    /\ Last(written[k].blame.revs) = ","
                    /\ Last(written[k].blame.filespecs) = ","
                    /\ Last(written[k].blame.blame_linenos) = ","

\* C34 witness: a line written after five hops and the truncation marker:
\* seven elements in each list.
C34_Witness ==
    \E k \in 1..Len(written) :
        /\ written[k].blame.has
        /\ written[k].lookups = MaxIgnoredAllowed
        /\ written[k].stop = "budget"
        /\ ListsOfLength(written[k].blame.revs, written[k].blame.filespecs,
                         written[k].blame.blame_linenos, MaxIgnoredAllowed + 2)


\* C35: a FormattedLine carries the opens-nesting marker exactly when an
\* entry was pushed on the nesting stack while the tokens of that line were
\* processed; the marker is cleared at each line boundary, so the line being
\* built has one exactly when a push was made on it, and every push made is on
\* a line that is flushed.
C35_MarkerIffPushedOnLine ==
    /\ \A n \in 1..Len(output_lines) :
          (output_lines[n].sym_starts_nest # None) <=> (PushesOn(n) # <<>>)
    /\ pc = "tokens" =>
          ((starts_nest # None) <=> (PushesOn(cur_line) # <<>>))
    /\ Rendered =>
          \A k \in 1..Len(hist.pushed) : hist.pushed[k].line <= Len(output_lines)

\* C35 witness: a push on the first of two lines; the first has the marker,
\* the second has none.
C35_Witness ==
    /\ Rendered
    /\ Len(output_lines) >= 2
    /\ PushesOn(1) # <<>>
    /\ PushesOn(2) = <<>>
    /\ output_lines[1].sym_starts_nest # None
    /\ output_lines[2].sym_starts_nest = None
    /\ nesting_stack # <<>>

=============================================================================
